---- MODULE Spec2Model ----
(***************************************************************************)
(* State-machine model of the Kenya Law crawler (kenyalaw2.py, with the    *)
(* thread-pool variants kenyalaw.py / kenyalaw_requests.py) and of the     *)
(* PDF indexer (pineconeupsertion.py).                                     *)
(*                                                                         *)
(* Strings are modelled structurally: a URL path is the sequence of its    *)
(* '/'-separated segments, a segment is a sequence of tokens, a file name  *)
(* is a token sequence plus an optional unix timestamp.                    *)
(***************************************************************************)
EXTENDS Integers, Sequences, FiniteSets, TLC

VARIABLES
    now,             \* wall clock: int(time.time()) / datetime.now()
    run,             \* number of process restarts so far
    processed_urls,  \* kenyalaw2.py:51  the VisitedSet
    store,           \* the S3 bucket: set of [key, src] objects
    th,              \* per thread: position and locals of download_document_to_s3
    putLog,          \* put_object calls so far: set of [run, url, ctx, key]
    kin,             \* key-derivation harness: the inputs
    kout,            \* key-derivation harness: the keys computed so far
    ledger,          \* pineconeupsertion.py:45-57  the sqlite table "processed"
    ipc,             \* run_indexer: where the loop stands
    queue,           \* run_indexer: the keys the current for-loop still has to do
    cycle,           \* run_indexer: completed passes of the while loop
    last,            \* the latest process_and_upsert call (n-th of the run) and what it did
    upserted,        \* per key: calls that put chunks into the vector store
    retried,         \* per key: re-attempts made by the retry pass of run_indexer
    site,            \* the shape of the site being crawled
    walk,            \* final_page_scrapper / extract_all_cases_links_in_a_query: position and locals
    driver_pool,     \* kenyalaw2.py:176-181  the DriverPool object
    written,         \* s3_links.txt
    trace,           \* what the walk has done so far: pages asked for, detail links collected, results
    fin,             \* page-function harness: the function applied and its argument
    fout,            \* page-function harness: the results computed so far
    dp,              \* a DriverPool with its drivers told apart, used by concurrent callers
    pu,              \* process_and_upsert calls one after another, and the scratch file
    sc,              \* one call of scrape_page: its retries, loop position and attempts
    callers,         \* per caller of the pool: position and the driver it holds
    proc             \* a crawler process under signals: flag, main-thread frames, pool, tasks

persistVars == <<processed_urls, store, th, putLog, run>>
keyVars     == <<kin, kout>>
indexVars   == <<ledger, ipc, queue, cycle, last, upserted, retried>>
walkVars    == <<site, walk, driver_pool, written, trace>>
fnVars      == <<fin, fout, sc, pu>>
poolVars    == <<dp, callers>>
sigVars     == <<proc>>
auxVars     == <<fnVars, poolVars, sigVars>>
vars        == <<now, persistVars, keyVars, indexVars, walkVars, auxVars>>
offPersist  == <<keyVars, indexVars, walkVars, auxVars>>
offIndex    == <<now, persistVars, keyVars, walkVars, auxVars>>
offWalk     == <<keyVars, indexVars, auxVars>>
offAux      == <<now, persistVars, keyVars, indexVars, walkVars>>

----------------------------------------------------------------------------
(* Bounds of the model *)
MaxClock    == 2    \* the clock takes values 0..MaxClock
MaxRestarts == 1    \* process restarts explored
MaxCycles   == 1    \* passes of the indexer's while loop explored

----------------------------------------------------------------------------
(* Strings *)

bucket_name == "kenya-law-denning"
folder      == "documents"
None        == <<>>
DocExts     == {".pdf", ".doc", ".docx"}

Seg(s)      == <<s>>
EmptySeg    == <<>>

\* https://new.kenyalaw.org/akn/ke/judgment/kehc/2024/123/eng@2024-01-01/source
U_full  == [kl |-> TRUE,
            path |-> <<EmptySeg, Seg("akn"), Seg("ke"), Seg("judgment"), Seg("kehc"),
                       Seg("2024"), Seg("123"), Seg("eng@2024-01-01"), Seg("source")>>]
\* the same judgment under another expression date
U_alt   == [kl |-> TRUE,
            path |-> <<EmptySeg, Seg("akn"), Seg("ke"), Seg("judgment"), Seg("kehc"),
                       Seg("2024"), Seg("123"), Seg("eng@2024-02-02"), Seg("source")>>]
\* https://new.kenyalaw.org/doc/source : fewer than 6 path parts
U_short == [kl |-> TRUE, path |-> <<EmptySeg, Seg("doc"), Seg("source")>>]
\* https://new.kenyalaw.org/akn/ke/judgment/kehc/source : exactly 6 path parts
U_six   == [kl |-> TRUE,
            path |-> <<EmptySeg, Seg("akn"), Seg("ke"), Seg("judgment"), Seg("kehc"),
                       Seg("source")>>]
\* https://new.kenyalaw.org/files/doc.pdf
U_pdf   == [kl |-> TRUE, path |-> <<EmptySeg, Seg("files"), <<"doc", ".pdf">>>>]
\* https://new.kenyalaw.org/files/report
U_noext == [kl |-> TRUE, path |-> <<EmptySeg, Seg("files"), Seg("report")>>]
\* https://new.kenyalaw.org/files/ : empty basename
U_dir   == [kl |-> TRUE, path |-> <<EmptySeg, Seg("files"), EmptySeg>>]
\* https://mirror.example/a/b/c/d/e/f/source : '/source' without 'kenyalaw.org'
U_other == [kl |-> FALSE,
            path |-> <<EmptySeg, Seg("a"), Seg("b"), Seg("c"), Seg("d"), Seg("e"),
                       Seg("f"), Seg("source")>>]

AllURLs  == {U_full, U_alt, U_short, U_six, U_pdf, U_noext, U_dir, U_other}
\* (year_name, month_name) of the listing a detail page was found under
CrawlContexts == {<<"2024", "January">>}
Contexts      == CrawlContexts \cup {<<"2023", "May">>}

\* '/source' in url
HasSource(url) ==
    \E i \in 2..Len(url.path) : url.path[i] # EmptySeg /\ url.path[i][1] = "source"

\* filename.lower().endswith(('.pdf', '.doc', '.docx'))
EndsWithDocExt(name) == name # <<>> /\ name[Len(name)] \in DocExts

\* python list index (0-based) into a TLA+ sequence
At(parts, i) == parts[i + 1]

Join3(a, b, c) == a \o <<"_">> \o b \o <<"_">> \o c

FileName(name, ts) == [name |-> name, ts |-> ts]
NoTs == 0 - 1
IndexError == [name |-> <<"IndexError">>, ts |-> NoTs]

\* os.path.basename(parsed_url.path)
basename(url) == url.path[Len(url.path)]

(* kenyalaw2.py:421-435: the file name of an asset URL at clock value t;   *)
(* IndexError when path_parts[6] does not exist.                           *)
derive_filename(url, t) ==
    IF HasSource(url) /\ url.kl
    THEN IF Len(url.path) >= 6
         THEN IF Len(url.path) >= 7
              THEN FileName(Join3(At(url.path, 4), At(url.path, 5), At(url.path, 6))
                              \o <<".pdf">>, NoTs)
              ELSE IndexError
         ELSE FileName(<<"document_", ".pdf">>, t)
    ELSE LET b == basename(url)
             f == IF b # <<>> THEN FileName(b, NoTs) ELSE FileName(<<"document_">>, t)
         IN  IF EndsWithDocExt(f.name) THEN f
             ELSE FileName(f.name \o <<".pdf">>, f.ts)

\* kenyalaw2.py:438
s3_key(dir, ctx, filename) ==
    [folder |-> dir, year |-> ctx[1], month |-> ctx[2], filename |-> filename]

\* f"s3://{bucket_name}/{s3_key}"
S3Ref(key) == <<"s3://", bucket_name, key>>

\* kenyalaw2.py:419-438: the storage key, or KeyError when derivation raises
NoKey    == s3_key("", <<"", "">>, FileName(<<>>, NoTs))
KeyError == s3_key("", <<"", "">>, IndexError)
derive_key(url, ctx, t) ==
    LET f == derive_filename(url, t)
    IN  IF f = IndexError THEN KeyError ELSE s3_key(folder, ctx, f)

----------------------------------------------------------------------------
(* Indexer: pineconeupsertion.py *)

\* pineconeupsertion.py:25 sets 20; scaled down so that a backlog of a few
\* blobs is larger than one batch
BATCH_SIZE        == 1
MAX_RETRIES       == 1
RETRY_SLICE       == 5
MinBytes          == 50
upsert_batch_size == 25

Blob(key, modified, size) == [key |-> key, modified |-> modified, size |-> size]

\* the objects under PREFIX, with LastModified and size in bytes
Bucket == {Blob(<<"a", ".pdf">>, 1, 1000), Blob(<<"b", ".pdf">>, 2, 10),
           Blob(<<"d", ".doc">>, 0, 1000)}
Keys   == {b.key : b \in Bucket}
BlobOf(key) == CHOOSE b \in Bucket : b.key = key

\* numbers of Document objects a PDF can be split into
DocCounts == {1, 100}

NoRow == [status |-> "none", retry_count |-> 0, file_type |-> ""]
Row(status, retries, file_type) ==
    [status |-> status, retry_count |-> retries, file_type |-> file_type]

\* pineconeupsertion.py:59-61
already_processed(table, key) == table[key] # NoRow

\* a write that records every outcome as 'failed'
mark_as_processed_Failed(table, key, status, file_type) ==
    [table EXCEPT ![key] = Row("failed", 0, file_type)]

\* pineconeupsertion.py:65-69: INSERT OR REPLACE; retry_count takes its default
mark_as_processed(table, key, status, file_type) ==
    [table EXCEPT ![key] = Row(status, 0, file_type)]

\* pineconeupsertion.py:76-80
get_failed_files(table) ==
    {k \in Keys : table[k].status = "failed" /\ table[k].retry_count < MAX_RETRIES}

\* pineconeupsertion.py:87-92
increment_retry_count(table, key) ==
    IF table[key] = NoRow THEN table
    ELSE [table EXCEPT ![key].retry_count = @ + 1]

\* the orders in which a SELECT without ORDER BY can return a set of rows
SeqsOf(S) ==
    {q \in [1..Cardinality(S) -> S] : \A i, j \in DOMAIN q : i # j => q[i] # q[j]}

\* seq[:n]
Take(seq, n) == SubSeq(seq, 1, IF n < Len(seq) THEN n ELSE Len(seq))

\* sorted(objects, key=lambda obj: obj['LastModified'])
RECURSIVE SortByModified(_)
SortByModified(S) ==
    IF S = {} THEN <<>>
    ELSE LET m == CHOOSE b \in S : \A c \in S : b.modified <= c.modified
         IN  <<m>> \o SortByModified(S \ {m})

\* a listing that comes newest first
list_s3_files_sorted_NewestFirst(objects, ok) ==
    IF ok
    THEN LET q == SortByModified(objects) IN [i \in DOMAIN q |-> q[Len(q) + 1 - i]]
    ELSE <<>>

\* pineconeupsertion.py:254-265; [] when listing fails
list_s3_files_sorted(objects, ok) == IF ok THEN SortByModified(objects) ELSE <<>>

\* obj['Key'].endswith('.pdf')
IsPdf(key) == key[Len(key)] = ".pdf"

RECURSIVE KeysOf(_)
KeysOf(objs) == IF objs = <<>> THEN <<>> ELSE <<Head(objs).key>> \o KeysOf(Tail(objs))

\* a filter that lets keys with a ledger row through
new_files_Unfiltered(objs, table) == SelectSeq(KeysOf(objs), IsPdf)

\* pineconeupsertion.py:289-292
new_files(objs, table) ==
    SelectSeq(KeysOf(objs), LAMBDA k : IsPdf(k) /\ ~already_processed(table, k))

(* What one process_and_upsert call did: the status and file type it gave   *)
(* to mark_as_processed, whether it measured the size, whether it ran the   *)
(* text extraction, the fate of each upsert sub-batch, the sub-batches it   *)
(* tried and counted as successful, and whether an exception left the call. *)
Outcome(status, file_type, sized, extracted, results, attempted, successful) ==
    [status |-> status, file_type |-> file_type, sized |-> sized,
     extracted |-> extracted, results |-> results, attempted |-> attempted,
     successful |-> successful, marked |-> TRUE, raised |-> FALSE]

\* a download handler that returns without touching the ledger
DownloadFailed_Silent ==
    [status |-> "skipped", file_type |-> "Download Error", sized |-> FALSE,
     extracted |-> FALSE, results |-> <<>>, attempted |-> 0, successful |-> 0,
     marked |-> FALSE, raised |-> FALSE]

\* pineconeupsertion.py:141-144
DownloadFailed == Outcome("skipped", "Download Error", FALSE, FALSE, <<>>, 0, 0)

\* a size check that lets every file through
TooSmall_Never(size) == FALSE

\* pineconeupsertion.py:149
TooSmall(size) == size < MinBytes

\* pineconeupsertion.py:150-152
SmallFile == Outcome("skipped", "Small File", TRUE, FALSE, <<>>, 0, 0)

\* len(range(0, len(documents), upsert_batch_size))
NumBatches(ndocs) == (ndocs + upsert_batch_size - 1) \div upsert_batch_size

\* a loop that gives up at the first failing sub-batch
NextAfterFailure_Break(i, n) == n + 1

\* pineconeupsertion.py:222-224: the batch tried after batch i of n failed
NextAfterFailure(i, n) == i + 1

\* pineconeupsertion.py:216-224: the sub-batch loop from batch i on
RECURSIVE UpsertLoop(_, _, _)
UpsertLoop(results, i, acc) ==
    IF i > Len(results) THEN acc
    ELSE IF results[i]
         THEN UpsertLoop(results, i + 1,
                         [attempted |-> acc.attempted + 1,
                          successful |-> acc.successful + 1])
         ELSE UpsertLoop(results, NextAfterFailure(i, Len(results)),
                         [attempted |-> acc.attempted + 1,
                          successful |-> acc.successful])

\* pineconeupsertion.py:226-231
UpsertVerdict(successful) ==
    IF successful > 0 THEN <<"success", "PDF">> ELSE <<"skipped", "Upsert Failed">>

\* pineconeupsertion.py:210-231
Upsert(sized, results) ==
    LET acc == UpsertLoop(results, 1, [attempted |-> 0, successful |-> 0])
        v   == UpsertVerdict(acc.successful)
    IN  Outcome(v[1], v[2], sized, TRUE, results, acc.attempted, acc.successful)

\* pineconeupsertion.py:156-208, 233-239: the ways the call ends between the
\* size check and the upsert
ExtractionFailures(sized) ==
    {Outcome("skipped", ft, sized, TRUE, <<>>, 0, 0) :
        ft \in {"PDF Error", "Empty PDF", "Low Content", "Chunking Failed",
                "Document Creation Failed", "Upsert Error"}}

\* pineconeupsertion.py:156-239
AfterSizeCheck(sized) ==
    ExtractionFailures(sized) \cup
    {Upsert(sized, results) :
        results \in UNION {[1..NumBatches(n) -> BOOLEAN] : n \in DocCounts}}

\* pineconeupsertion.py:241-243: an exception outside the inner handlers
GeneralError == Outcome("skipped", "General Error", FALSE, FALSE, <<>>, 0, 0)

\* pineconeupsertion.py:127-251: every way process_and_upsert can go for a blob
process_and_upsert(blob) ==
    {DownloadFailed, GeneralError}
    \cup (IF TooSmall(blob.size) THEN {SmallFile} ELSE AfterSizeCheck(TRUE))
    \cup AfterSizeCheck(FALSE)

NoCall == [n |-> 0, key |-> <<>>, dbFault |-> FALSE,
           out |-> Outcome("", "", FALSE, FALSE, <<>>, 0, 0)]

\* pineconeupsertion.py:283-285, 301-303: the for-loops' handler of an
\* exception that leaves process_and_upsert
LoopHandlerStatus(file_type) == <<"skipped", file_type>>

\* pineconeupsertion.py:310-312: the while-loop's handler
MainLoopHandler == "sleep"

\* one call process_and_upsert(key) from run_indexer, on ledger `table`
Process(key, table, handler_type) ==
    \E out \in process_and_upsert(BlobOf(key)), dbok \in BOOLEAN :
        LET mark == IF out.raised THEN LoopHandlerStatus(handler_type)
                    ELSE <<out.status, out.file_type>>
        IN  /\ ledger' = IF (out.marked \/ out.raised) /\ dbok
                         THEN mark_as_processed(table, key, mark[1], mark[2])
                         ELSE table
            /\ last' = [n |-> last.n + 1, key |-> key, dbFault |-> ~dbok, out |-> out]
            /\ upserted' = [upserted EXCEPT ![key] =
                              IF \E i \in 1..out.attempted : out.results[i]
                              THEN @ + 1 ELSE @]
            /\ queue' = Tail(queue)

IndexIdle ==
    /\ ledger = [k \in Keys |-> NoRow]
    /\ ipc = "off"
    /\ queue = <<>>
    /\ cycle = 0
    /\ last = NoCall
    /\ upserted = [k \in Keys |-> 0]
    /\ retried = [k \in Keys |-> 0]


----------------------------------------------------------------------------
(* AssetPersister: download_document_to_s3, one step per shared-state      *)
(* access, run by the pool threads of extract_all_cases_links_in_a_query   *)
(* (kenyalaw.py:421 ThreadPoolExecutor(max_workers=2)); each pool thread   *)
(* runs one call per process run.                                          *)

Workers   == {"w1", "w2"}
\* the pool threads and the main thread (kenyalaw2.py runs every call on it)
Threads   == Workers \cup {"main"}
AssetURLs == {U_full, U_alt, U_short, U_six}

NoURL == [kl |-> FALSE, path |-> <<>>]
\* no response yet
NoResp == [status |-> 0 - 1, len |-> 0]
IdleThread ==
    [pc |-> "idle", url |-> NoURL, ctx |-> <<"", "">>, key |-> NoKey, ret |-> None,
     probe |-> "", passed |-> FALSE, fetched |-> FALSE, resp |-> NoResp,
     stored |-> FALSE, conc |-> FALSE]

InFlight(t) == th[t].pc \notin {"idle", "done"}

Return(t, value) == [th EXCEPT ![t].pc = "done", ![t].ret = value]

HasObject(key) == \E o \in store : o.key = key

\* download_document_to_s3(url, year_name, month_name) is entered by thread t
Call(t, url, ctx) ==
    /\ th[t].pc = "idle"
    /\ th' = [th EXCEPT ![t] =
                [IdleThread EXCEPT !.pc = "check", !.url = url, !.ctx = ctx,
                    !.conc = \E o \in Workers \ {t} : InFlight(o) /\ th[o].url = url]]
    /\ UNCHANGED <<now, processed_urls, store, putLog, run, offPersist>>

\* a check that forgets to record the URL
VisitedAfter_Forget(visited, url) == visited

\* a set that holds the latest URL only
VisitedAfter_Replace(visited, url) == {url}

\* processed_urls.add(url)
VisitedAfter(visited, url) == visited \cup {url}

\* kenyalaw2.py:414-417, under processed_urls_lock
CheckAndInsert(t) ==
    /\ th[t].pc = "check"
    /\ IF th[t].url \in processed_urls
       THEN /\ th' = Return(t, None)
            /\ UNCHANGED processed_urls
       ELSE /\ processed_urls' = VisitedAfter(processed_urls, th[t].url)
            /\ th' = [th EXCEPT ![t].pc = "derive", ![t].passed = TRUE]
    /\ UNCHANGED <<now, store, putLog, run, offPersist>>

\* kenyalaw2.py:419-438; an IndexError is caught at 474-476
DeriveKey(t) ==
    /\ th[t].pc = "derive"
    /\ LET k == derive_key(th[t].url, th[t].ctx, now)
       IN  th' = IF k = KeyError THEN Return(t, None)
                 ELSE [th EXCEPT ![t].pc = "head", ![t].key = k]
    /\ UNCHANGED <<now, processed_urls, store, putLog, run, offPersist>>

\* what s3.head_object can answer for a key: the object, a ClientError code,
\* or another exception
ProbeOutcomes(key) ==
    (IF HasObject(key) THEN {"found"} ELSE {"404"}) \cup {"403", "500", "raise"}

\* kenyalaw2.py:446
ProbeProceeds(code) == code \in {"404", "403"}

\* kenyalaw2.py:440-448
HeadObject(t) ==
    /\ th[t].pc = "head"
    /\ \E r \in ProbeOutcomes(th[t].key) :
          th' = IF r = "found"
                THEN [Return(t, S3Ref(th[t].key)) EXCEPT ![t].probe = r]
                ELSE IF ProbeProceeds(r)
                THEN [th EXCEPT ![t].pc = "get", ![t].probe = r]
                ELSE [Return(t, None) EXCEPT ![t].probe = r]
    /\ UNCHANGED <<now, processed_urls, store, putLog, run, offPersist>>

\* what session.get can answer: a status and a payload length, or an exception
Responses == {[status |-> 200, len |-> 1], [status |-> 200, len |-> 0],
              [status |-> 404, len |-> 1], [status |-> 0, len |-> 0]}
Raised(resp) == resp.status = 0

\* a test of the status alone
Storable_AnyLength(resp) == resp.status = 200

\* kenyalaw2.py:461-462
Storable(resp) == resp.status = 200 /\ resp.len # 0

\* kenyalaw2.py:450-464, 470-472
HttpGet(t) ==
    /\ th[t].pc = "get"
    /\ \E resp \in Responses :
          th' = IF ~Raised(resp) /\ Storable(resp)
                THEN [th EXCEPT ![t].pc = "put", ![t].fetched = TRUE, ![t].resp = resp]
                ELSE [Return(t, None) EXCEPT ![t].fetched = TRUE, ![t].resp = resp]
    /\ UNCHANGED <<now, processed_urls, store, putLog, run, offPersist>>

\* the bucket after put_object(Key=key, Body=bytes fetched from src)
StoreAfterPut(objects, key, src) ==
    {o \in objects : o.key # key} \cup {[key |-> key, src |-> src]}

\* a store write that reports nothing
PutResult_None(key) == None

\* kenyalaw2.py:469
PutResult(key) == S3Ref(key)

\* kenyalaw2.py:466-469; a failed write raises and is caught at 474-476
PutObject(t) ==
    /\ th[t].pc = "put"
    /\ \/ /\ store' = StoreAfterPut(store, th[t].key, th[t].url)
          /\ putLog' = putLog \cup {[run |-> run, url |-> th[t].url,
                                     ctx |-> th[t].ctx, key |-> th[t].key]}
          /\ th' = [Return(t, PutResult(th[t].key)) EXCEPT ![t].stored = TRUE]
       \/ /\ th' = Return(t, None)
          /\ UNCHANGED <<store, putLog>>
    /\ UNCHANGED <<now, processed_urls, run, offPersist>>

----------------------------------------------------------------------------
(* The site: kenyalaw2.py walks year -> month -> letter -> page -> detail  *)

\* kenyalaw2.py:646, as the path below the host
target_url == <<"superior-courts">>

\* a listing URL: a base path, ?alphabet=<letter> and &page=<n>, 0 when absent
Link(base, alphabet, page) == [base |-> base, alphabet |-> alphabet, page |-> page]

\* a site with year and month navigation, and one without any
Sites == {"tree", "flat"}

\* the year segments of the hrefs in the first ul.year-nav of the page at url
YearNav(s, url) ==
    IF s = "tree" /\ url = target_url THEN <<"2024", "2023">> ELSE <<>>

\* the month segments of the hrefs in the second ul.year-nav
MonthNav(s, url) ==
    IF s = "tree" /\ url = target_url \o <<"2024">> THEN <<"1", "2">>
    ELSE IF s = "tree" /\ url = target_url \o <<"2023">> THEN <<"5">>
    ELSE <<>>

\* a parsed page as the year functions see it: whether find_all raises, and
\* the ul.year-nav lists, each the hrefs of its li elements; an href is the
\* list href.split("/"), None for an li without an anchor or without href
Doc(raises, uls) == [raises |-> raises, uls |-> uls]

\* the root page of site s: hrefs like /superior-courts/2024/
RootPage(s, url) ==
    LET nav == YearNav(s, url)
    IN  Doc(FALSE, IF nav = <<>> THEN <<>>
                   ELSE <<[i \in 1..Len(nav) |-> <<"", "superior-courts", nav[i], "">>]>>)

\* the li elements that pass "a_tag and 'href' in a_tag.attrs"
WithHref(lis) == SelectSeq(lis, LAMBDA h : h # None)

\* a page without the fallback for a missing list
years_links_extract_NoFallback(url, page) ==
    IF page.raises \/ page.uls = <<>> THEN <<>>
    ELSE LET hrefs == WithHref(page.uls[1])
         IN  IF \E i \in DOMAIN hrefs : Len(hrefs[i]) < 2 THEN <<>>
             ELSE [i \in DOMAIN hrefs |-> Append(url, hrefs[i][Len(hrefs[i]) - 1])]

\* kenyalaw2.py:306-321; href.split("/")[-2] is an IndexError on an href
\* without a slash, and every exception gives [url]
years_links_extract(url, page) ==
    IF page.raises \/ page.uls = <<>> THEN <<url>>
    ELSE LET hrefs == WithHref(page.uls[1])
         IN  IF \E i \in DOMAIN hrefs : Len(hrefs[i]) < 2 THEN <<url>>
             ELSE [i \in DOMAIN hrefs |-> Append(url, hrefs[i][Len(hrefs[i]) - 1])]

\* kenyalaw2.py:323-338
months_links_extract(s, url) ==
    LET nav == MonthNav(s, url)
    IN  IF nav = <<>> THEN <<url>>
        ELSE [i \in 1..Len(nav) |-> Append(url, nav[i])]

\* link.rstrip('/').split('/')[-1]
LastSegment(url) == url[Len(url)]

\* kenyalaw2.py:543-547, 578: month_names.get(month_num, month_num)
MonthName(month_num) ==
    CASE month_num = "1" -> "January"
      [] month_num = "2" -> "February"
      [] month_num = "5" -> "May"
      [] OTHER -> month_num

\* str(now.year), now.strftime('%B') at clock value t: the year turns
\* between 0 and 1
ClockContext(t) ==
    IF t = 0 THEN <<"2025", "December">> ELSE <<"2026", "January">>

ord_a == 97
ord_z == 122

\* a range that stops one letter early
extract_alphabetical_links_Short(url) ==
    [i \in 1..(ord_z - ord_a) |-> Link(url, ord_a + i - 1, 0)]

\* kenyalaw2.py:355-356
extract_alphabetical_links(url) ==
    [i \in 1..(ord_z + 1 - ord_a) |-> Link(url, ord_a + i - 1, 0)]

\* the page numbers in ul.pagination of a letter's first page
Pagination(s, alphabet_link) ==
    IF s = "tree" /\ alphabet_link = Link(target_url \o <<"2024", "1">>, 99, 0)
    THEN {1, 2} ELSE {}

\* kenyalaw2.py:340-353: list(set(page_numbers)) comes in any order
extract_page_numbers_links(s, alphabet_link) ==
    IF Pagination(s, alphabet_link) = {} THEN {<<alphabet_link>>}
    ELSE SeqsOf({Link(alphabet_link.base, alphabet_link.alphabet, n) :
                    n \in Pagination(s, alphabet_link)})

\* kenyalaw2.py:358-371: the detail links in the table of a listing page
pdf_links(s, page_link) ==
    IF s = "tree"
    THEN CASE page_link = Link(target_url \o <<"2024", "1">>, 99, 1) -> <<"D1">>
           [] page_link = Link(target_url \o <<"2024", "1">>, 99, 2) -> <<"D2">>
           [] page_link = Link(target_url \o <<"2024", "1">>, 100, 0) -> <<"D3", "D4">>
           [] page_link = Link(target_url \o <<"2024", "2">>, 97, 0) -> <<"D5">>
           [] OTHER -> <<>>
    ELSE IF page_link = Link(target_url, 97, 0) THEN <<"D6", "D7">> ELSE <<>>

\* the href of the download anchor on a detail page
Href(link) ==
    CASE link \in {"D1", "D2", "D5"} -> U_full
      [] link = "D3" -> U_six
      [] link = "D4" -> U_alt
      [] link = "D6" -> U_noext
      [] OTHER -> U_pdf

\* kenyalaw2.py:393, 402
IsDocumentLink(url) == EndsWithDocExt(basename(url)) \/ HasSource(url)

\* kenyalaw2.py:383-408: the asset URL, or None (NoURL) when the page cannot
\* be fetched or has no document anchor
extract_document_link(link) ==
    {NoURL} \cup (IF IsDocumentLink(Href(link)) THEN {Href(link)} ELSE {})

----------------------------------------------------------------------------
(* DriverPool *)

\* kenyalaw2.py:638 DriverPool(size=1)
max_size == 1

Pool(drivers, active_drivers) ==
    [drivers |-> drivers, active_drivers |-> active_drivers]

\* kenyalaw2.py:177-189: the initial driver may fail to start
NewPools == {Pool(1, 1), Pool(0, 0)}

\* kenyalaw2.py:204-223: the pool afterwards and whether a driver came back
get_driver(pool) ==
    IF pool.drivers > 0
    THEN {[pool |-> Pool(pool.drivers - 1, pool.active_drivers), got |-> TRUE]}
    ELSE (IF pool.active_drivers < max_size
          THEN {[pool |-> Pool(pool.drivers, pool.active_drivers + 1), got |-> TRUE]}
          ELSE {})
         \cup {[pool |-> pool, got |-> FALSE]}

\* kenyalaw2.py:225-243: back in the queue, or dropped when it fails the test
return_driver(pool) ==
    {Pool(pool.drivers + 1, pool.active_drivers),
     Pool(pool.drivers, pool.active_drivers - 1)}

----------------------------------------------------------------------------
(* The walker: final_page_scrapper and extract_all_cases_links_in_a_query  *)

IdleWalk ==
    [pc |-> "off", fallback |-> FALSE,
     years_links |-> <<>>, years |-> <<>>, months |-> <<>>, letters |-> <<>>, pages |-> <<>>,
     pdf_download_page_links |-> <<>>, docs |-> <<>>,
     year_name |-> "", month_name |-> "", link |-> "",
     all_documents |-> <<>>, all_downloadable_links |-> {}]

NoFile  == [saved |-> FALSE, lines |-> <<>>]
NoTrace == [seen |-> {}, listed |-> <<>>, log |-> <<>>]

WalkIdle ==
    /\ site = "tree"
    /\ walk = IdleWalk
    /\ driver_pool = Pool(0, 0)
    /\ written = NoFile
    /\ trace = NoTrace

Range(q) == {q[i] : i \in DOMAIN q}

\* scrape_page(driver, link) was called
Seen(link) == [trace EXCEPT !.seen = @ \cup {link}]

\* process_single_document(link, ...) returned result for asset url
Logged(link, url, ok, result) ==
    [trace EXCEPT !.log = Append(@, [link |-> link, url |-> url, ok |-> ok,
                                     result |-> result])]

\* kenyalaw2.py:551-556
ScrapeRoot ==
    /\ walk.pc = "root"
    /\ trace' = Seen(Link(target_url, 0, 0))
    /\ \E ok \in BOOLEAN :
          walk' = IF ok
                  THEN [walk EXCEPT !.pc = "year",
                          !.years_links = years_links_extract(target_url,
                                              RootPage(site, target_url)),
                          !.years = years_links_extract(target_url,
                                        RootPage(site, target_url))]
                  ELSE [walk EXCEPT !.pc = "done"]
    /\ UNCHANGED <<now, persistVars, site, driver_pool, written, offWalk>>

\* a walk that gives up the remaining years when a year page fails
SkipYear_Abort(w) == [w EXCEPT !.years = <<>>]

\* kenyalaw2.py:567-569: "if not year_page: continue"
SkipYear(w) == [w EXCEPT !.years = Tail(@)]

\* kenyalaw2.py:511-513: "if not page_1: continue"
SkipLetter(w) == [w EXCEPT !.letters = Tail(@)]

\* kenyalaw2.py:558-570
NextYear ==
    /\ walk.pc = "year" /\ walk.years # <<>>
    /\ LET year_link == Head(walk.years)
       IN  /\ trace' = Seen(Link(year_link, 0, 0))
           /\ \E ok \in BOOLEAN :
                walk' = IF ok
                        THEN [walk EXCEPT !.pc = "month", !.years = Tail(@),
                                !.year_name = LastSegment(year_link),
                                !.months = months_links_extract(site, year_link)]
                        ELSE SkipYear(walk)
    /\ UNCHANGED <<now, persistVars, site, driver_pool, written, offWalk>>

\* kenyalaw2.py:572-582, 501-502: the call extract_all_cases_links_in_a_query(month_link)
NextMonth ==
    /\ walk.pc = "month" /\ walk.months # <<>>
    /\ walk' = [walk EXCEPT !.pc = "letter", !.months = Tail(@),
                  !.month_name = MonthName(LastSegment(Head(walk.months))),
                  !.letters = extract_alphabetical_links(Head(walk.months)),
                  !.all_documents = <<>>]
    /\ UNCHANGED <<now, persistVars, site, driver_pool, written, trace, offWalk>>

\* a merge that keeps only the latest query's references
Collect_Overwrite(links, downloadable_links) == Range(downloadable_links)

\* kenyalaw2.py:584-587, 597-600
Collect(links, downloadable_links) == links \cup Range(downloadable_links)

\* where the walk stands once extract_all_cases_links_in_a_query has returned
AfterQuery(w) ==
    IF w.fallback THEN "save" ELSE IF w.months # <<>> THEN "month" ELSE "year"

\* where the walk stands once the documents of a letter are done
AfterLetter(w) == "letter"

\* kenyalaw2.py:504-517, and the return at 535 with the loop at 584-587
NextLetter ==
    /\ walk.pc = "letter"
    /\ IF walk.letters = <<>>
       THEN /\ walk' = [walk EXCEPT !.pc = AfterQuery(walk),
                          !.all_downloadable_links = Collect(@, walk.all_documents)]
            /\ UNCHANGED trace
       ELSE LET alphabet_link == Head(walk.letters)
            IN  /\ trace' = Seen(alphabet_link)
                /\ \E ok \in BOOLEAN :
                     IF ok
                     THEN \E pages_links \in extract_page_numbers_links(site, alphabet_link) :
                             walk' = [walk EXCEPT !.pc = "page", !.letters = Tail(@),
                                        !.pages = pages_links,
                                        !.pdf_download_page_links = <<>>]
                     ELSE walk' = SkipLetter(walk)
    /\ UNCHANGED <<now, persistVars, site, driver_pool, written, offWalk>>

\* kenyalaw2.py:518-527: one page of the letter; after the last one the
\* collected links become the documents to process
NextPage ==
    /\ walk.pc = "page" /\ walk.pages # <<>>
    /\ \E ok \in BOOLEAN :
         LET links == IF ok THEN walk.pdf_download_page_links
                                   \o pdf_links(site, Head(walk.pages))
                      ELSE walk.pdf_download_page_links
         IN  IF Len(walk.pages) > 1
             THEN /\ walk' = [walk EXCEPT !.pages = Tail(@),
                                !.pdf_download_page_links = links]
                  /\ trace' = Seen(Head(walk.pages))
             ELSE /\ walk' = [walk EXCEPT !.pages = <<>>,
                                !.pdf_download_page_links = links,
                                !.docs = links,
                                !.pc = IF links = <<>> THEN AfterLetter(walk) ELSE "docs"]
                  /\ trace' = [Seen(Head(walk.pages)) EXCEPT !.listed = @ \o links]
    /\ UNCHANGED <<now, persistVars, site, driver_pool, written, offWalk>>

\* a loop that stops at the first document without a result
RestAfter_Abort(result, docs) == IF result = None THEN <<>> ELSE Tail(docs)

\* kenyalaw2.py:528-533: the links left once one link gave result
RestAfter(result, docs) == Tail(docs)

\* the walk once process_single_document gave result for the head of docs
Continue(w, result) ==
    LET rest == RestAfter(result, w.docs)
    IN  [w EXCEPT !.docs = rest, !.link = "",
            !.pc = IF rest = <<>> THEN AfterLetter(w) ELSE "docs",
            !.all_documents = IF result # None THEN Append(@, result) ELSE @]

\* kenyalaw2.py:528-531 and process_single_document 478-490
NextDocument ==
    /\ walk.pc = "docs" /\ walk.docs # <<>>
    /\ LET link == Head(walk.docs)
       IN  \E g \in get_driver(driver_pool) :
             IF ~g.got
             THEN /\ driver_pool' = g.pool
                  /\ trace' = Logged(link, NoURL, FALSE, None)
                  /\ walk' = Continue(walk, None)
                  /\ UNCHANGED th
             ELSE \E document_link \in extract_document_link(link) :
                    IF document_link = NoURL
                    THEN /\ driver_pool' \in return_driver(g.pool)
                         /\ trace' = Logged(link, NoURL, FALSE, None)
                         /\ walk' = Continue(walk, None)
                         /\ UNCHANGED th
                    ELSE /\ driver_pool' = g.pool
                         /\ th' = [th EXCEPT !["main"] =
                                     [IdleThread EXCEPT !.pc = "check",
                                         !.url = document_link,
                                         !.ctx = <<walk.year_name, walk.month_name>>]]
                         /\ walk' = [walk EXCEPT !.pc = "doc", !.link = link]
                         /\ UNCHANGED trace
    /\ UNCHANGED <<now, processed_urls, store, putLog, run, site, written, offWalk>>

\* kenyalaw2.py:489-497, 531-533: download_document_to_s3 has returned
DocumentDone ==
    /\ walk.pc = "doc" /\ th["main"].pc = "done"
    /\ walk' = Continue(walk, th["main"].ret)
    /\ trace' = Logged(walk.link, th["main"].url,
                       th["main"].stored \/ th["main"].probe = "found", th["main"].ret)
    /\ driver_pool' \in return_driver(driver_pool)
    /\ th' = [th EXCEPT !["main"] = IdleThread]
    /\ UNCHANGED <<now, processed_urls, store, putLog, run, site, written, offWalk>>

\* kenyalaw2.py:589-596: the site has no year navigation
Fallback ==
    /\ walk.pc = "year" /\ walk.years = <<>>
    /\ walk' = IF walk.years_links = <<>> \/ walk.years_links = <<target_url>>
               THEN [walk EXCEPT !.pc = "letter", !.fallback = TRUE,
                       !.year_name = ClockContext(now)[1],
                       !.month_name = ClockContext(now)[2],
                       !.letters = extract_alphabetical_links(target_url),
                       !.all_documents = <<>>]
               ELSE [walk EXCEPT !.pc = "save"]
    /\ UNCHANGED <<now, persistVars, site, driver_pool, written, trace, offWalk>>

\* kenyalaw2.py:607-613: one line per element of the set; an exception while
\* writing is logged and leaves the file short
SaveResults ==
    /\ walk.pc = "save"
    /\ \E lines \in SeqsOf(walk.all_downloadable_links) :
          \E n \in 0..Len(lines) :
             written' = [saved |-> n = Len(lines), lines |-> SubSeq(lines, 1, n)]
    /\ walk' = [walk EXCEPT !.pc = "done"]
    /\ UNCHANGED <<now, persistVars, site, driver_pool, trace, offWalk>>

----------------------------------------------------------------------------
(* The page functions applied to documents and labels of every shape        *)

MaxLis   == 2    \* li elements in a year-nav list
MaxLabel == 4    \* tokens of a size label
MaxDds   == 2    \* dd elements of a detail page
MaxPages == 2    \* pages of the listing of one letter

\* href.split("/") of the hrefs tried: /superior-courts/2024/, 2019/, x
Hrefs == {<<"", "superior-courts", "2024", "">>, <<"2019", "">>, <<"x">>, None}

SeqsUpTo(S, n) == UNION {[1..k -> S] : k \in 0..n}

\* pages with no list, one list or two lists
Docs ==
    {Doc(TRUE, <<>>)} \cup
    {Doc(FALSE, uls) : uls \in {<<>>} \cup
        {<<lis>> : lis \in SeqsUpTo(Hrefs, MaxLis)} \cup
        {<<lis, <<<<"", "2024", "1", "">>>>>> : lis \in SeqsUpTo(Hrefs, MaxLis)}}

\* a label is the sequence of its tokens: runs of digits, the dot, white
\* space, words
DigitTokens == {"0", "45", "001"}
Tokens      == DigitTokens \cup {".", " ", "KB", "mb", "GB"}

\* digit runs are maximal and the label has been strip()ped
Tokenized(text) ==
    /\ \A i \in 1..(Len(text) - 1) : ~(text[i] \in DigitTokens /\ text[i + 1] \in DigitTokens)
    /\ text # <<>> => text[1] # " " /\ text[Len(text)] # " "

Labels == {text \in SeqsUpTo(Tokens, MaxLabel) : Tokenized(text)}

\* int(digits), and digits read after the dot in ten-thousandths
IntVal(d)  == CASE d = "0" -> 0 [] d = "45" -> 45 [] d = "001" -> 1
FracVal(d) == CASE d = "0" -> 0 [] d = "45" -> 4500 [] d = "001" -> 10

\* unit.upper() when the token matches (KB|MB) under re.IGNORECASE
Unit(t) == CASE t = "KB" -> "KB" [] t = "mb" -> "MB" [] OTHER -> ""

RECURSIVE SkipSpaces(_, _)
\* \s*: the first position at or after i that is not white space
SkipSpaces(text, i) ==
    IF i <= Len(text) /\ text[i] = " " THEN SkipSpaces(text, i + 1) ELSE i

NoMatch == [size |-> 0 - 1, unit |-> ""]

\* (\d+(\.\d+)?)\s*(KB|MB) tried at position i: the fraction is taken when
\* the rest then matches, given up otherwise; size in ten-thousandths
MatchAt(text, i) ==
    IF ~(i <= Len(text) /\ text[i] \in DigitTokens) THEN NoMatch
    ELSE LET frac == i + 2 <= Len(text) /\ text[i + 1] = "." /\ text[i + 2] \in DigitTokens
             j1   == SkipSpaces(text, i + 3)
             j0   == SkipSpaces(text, i + 1)
         IN  IF frac /\ j1 <= Len(text) /\ Unit(text[j1]) # ""
             THEN [size |-> IntVal(text[i]) * 10000 + FracVal(text[i + 2]),
                   unit |-> Unit(text[j1])]
             ELSE IF j0 <= Len(text) /\ Unit(text[j0]) # ""
             THEN [size |-> IntVal(text[i]) * 10000, unit |-> Unit(text[j0])]
             ELSE NoMatch

\* re.search: the match at the leftmost position that has one
search(text) ==
    LET hits == {i \in DOMAIN text : MatchAt(text, i) # NoMatch}
    IN  IF hits = {} THEN NoMatch
        ELSE MatchAt(text, CHOOSE i \in hits : \A j \in hits : i <= j)

\* one threshold for both units
is_document_size_greater_than_zero_AnyUnit(text) ==
    IF text = <<>> THEN TRUE
    ELSE IF search(text) = NoMatch THEN TRUE
    ELSE search(text).size > 0

\* kenyalaw2.py:373-381: size > 0 in KB, size > 0.001 in MB
is_document_size_greater_than_zero(text) ==
    IF text = <<>> THEN TRUE
    ELSE LET match == search(text)
         IN  IF match # NoMatch
             THEN IF match.unit = "KB" THEN match.size > 0 ELSE match.size > 10
             ELSE TRUE

\* an anchor of a detail page: its href and its visible text; NoAnchor for
\* an element that is missing or has no href
NoAnchor == [href |-> NoURL, text |-> <<>>]
Anchors ==
    {[href |-> h, text |-> t] :
        h \in {U_full, U_pdf, U_noext},
        t \in {<<"0", " ", "KB">>, <<"45", " ", "KB">>, <<>>}} \cup {NoAnchor}

\* a detail page: whether fetching it fails, its a.btn.btn-primary.btn-shrink-sm
\* and, for each dd in document order, the first anchor inside it
DetailPage(variant, raises, button, dds) ==
    [variant |-> variant, raises |-> raises, button |-> button, dds |-> dds]
DetailPages ==
    {DetailPage(v, r, b, d) :
        v \in {"kenyalaw2", "kenyalaw_requests"}, r \in BOOLEAN,
        b \in Anchors, d \in SeqsUpTo(Anchors, MaxDds)}

\* the anchors of the page that are document links, in document order
DocAnchors(page) ==
    SelectSeq((IF page.button = NoAnchor THEN <<>> ELSE <<page.button>>) \o page.dds,
              LAMBDA a : a # NoAnchor /\ IsDocumentLink(a.href))

\* the label of the anchor tells a size that the gate rejects
ZeroSize(a) == a # NoAnchor /\ ~is_document_size_greater_than_zero(a.text)

\* kenyalaw2.py:398-404: the anchor of the last dd
SecondTry(page) ==
    IF page.dds = <<>> THEN NoURL
    ELSE LET a == page.dds[Len(page.dds)]
         IN  IF a # NoAnchor /\ IsDocumentLink(a.href) THEN a.href ELSE NoURL

\* kenyalaw2.py:383-408
extract_document_link_kenyalaw2(page) ==
    IF page.raises THEN NoURL
    ELSE IF /\ page.button # NoAnchor
            /\ IsDocumentLink(page.button.href)
            /\ is_document_size_greater_than_zero(page.button.text)
    THEN page.button.href
    ELSE SecondTry(page)

\* the first element of anchors that passes test, NoAnchor when none does
FirstThat(anchors, Test(_)) ==
    LET hits == SelectSeq(anchors, Test)
    IN  IF hits = <<>> THEN NoAnchor ELSE Head(hits)

RECURSIVE Reverse(_)
Reverse(seq) == IF seq = <<>> THEN <<>> ELSE Append(Reverse(Tail(seq)), Head(seq))

\* kenyalaw_requests.py:184-231: the selectors are tried in the order of the
\* list, each over the page in document order, then the dd elements from
\* the last one backwards
extract_document_link_requests(page) ==
    LET Sized(a)  == is_document_size_greater_than_zero(a.text)
        Button(a) == a = page.button /\ Sized(a)
        Source(a) == HasSource(a.href) /\ Sized(a)
        Ext(a)    == EndsWithDocExt(basename(a.href)) /\ Sized(a)
        Dd(a)     == a # NoAnchor /\ IsDocumentLink(a.href)
        first     == IF page.button # NoAnchor /\ IsDocumentLink(page.button.href)
                     THEN FirstThat(<<page.button>>, Button) ELSE NoAnchor
        second    == FirstThat(DocAnchors(page), Source)
        third     == FirstThat(DocAnchors(page), Ext)
    IN  IF page.raises THEN NoURL
        ELSE IF first # NoAnchor THEN first.href
        ELSE IF second # NoAnchor THEN second.href
        ELSE IF third # NoAnchor THEN third.href
        ELSE FirstThat(Reverse(page.dds), Dd).href

\* the listing of one letter: whether its first page has a ul.pagination,
\* the page number each li of it points at (0 for an li without a link),
\* whether the fetch of the first page works, and the pages whose later
\* fetch fails
Listing(ul, lis, first, fails) ==
    [ul |-> ul, lis |-> lis, first |-> first, fails |-> fails]
Listings ==
    {Listing(FALSE, <<>>, first, fails) :
        first \in BOOLEAN, fails \in SUBSET (1..MaxPages)} \cup
    {Listing(TRUE, lis, first, fails) :
        lis \in SeqsUpTo(0..MaxPages, MaxPages), first \in BOOLEAN,
        fails \in SUBSET (1..MaxPages)}

\* the page of the listing a link shows: the alphabet link itself shows the
\* first page
PageNo(link) == IF link.page = 0 THEN 1 ELSE link.page

\* kenyalaw2.py:358-371: page n of the letter lists one detail link
ListedOn(link) == IF PageNo(link) = 1 THEN {"D1"} ELSE {"D2"}

\* kenyalaw2.py:340-353: set(page_numbers), or [url] without a control
page_numbers(url, listing) ==
    IF ~listing.ul THEN {url}
    ELSE {[url EXCEPT !.page = listing.lis[i]] :
             i \in {j \in DOMAIN listing.lis : listing.lis[j] # 0}}

\* kenyalaw2.py:510-533: the detail links of one letter that are handed to
\* process_single_document
Dispatched(alphabet_link, listing) ==
    IF ~listing.first THEN {}
    ELSE UNION {ListedOn(page_link) :
                  page_link \in {l \in page_numbers(alphabet_link, listing) :
                                    PageNo(l) \notin listing.fails}}

NoArg == [fn |-> "", url |-> NoURL, page |-> Doc(FALSE, <<>>), text |-> <<>>]

\* no call of scrape_page under way
NoScrape == [variant |-> "", pc |-> "off", retries |-> 0, attempt |-> 0, tries |-> <<>>,
             ret |-> "", raised |-> FALSE]

\* no call of process_and_upsert under way, no file at temp_path
NoUpsert == [pc |-> "off", n |-> 0, key |-> <<>>, type |-> "", wrote |-> FALSE,
             removed |-> FALSE, file |-> "absent"]

FnIdle == fin = NoArg /\ fout = <<>> /\ sc = NoScrape /\ pu = NoUpsert

\* years_links = years_links_extract(url, scraped_page)
ApplyYears ==
    /\ fin.fn = "years_links_extract" /\ fout = <<>>
    /\ fout' = <<years_links_extract(fin.url, fin.page)>>
    /\ UNCHANGED <<fin, sc, pu, poolVars, sigVars, offAux>>

\* is_document_size_greater_than_zero(a_element.text.strip())
ApplySize ==
    /\ fin.fn = "is_document_size_greater_than_zero" /\ fout = <<>>
    /\ fout' = <<is_document_size_greater_than_zero(fin.text)>>
    /\ UNCHANGED <<fin, sc, pu, poolVars, sigVars, offAux>>

\* document_link = extract_document_link(driver, link)
ApplyExtract ==
    /\ fin.fn = "extract_document_link" /\ fout = <<>>
    /\ fout' = <<IF fin.page.variant = "kenyalaw2"
                 THEN extract_document_link_kenyalaw2(fin.page)
                 ELSE extract_document_link_requests(fin.page)>>
    /\ UNCHANGED <<fin, sc, pu, poolVars, sigVars, offAux>>

\* one pass of the letter loop of extract_all_cases_links_in_a_query
ApplyQuery ==
    /\ fin.fn = "extract_all_cases_links_in_a_query" /\ fout = <<>>
    /\ fout' = <<Dispatched(Link(fin.url, ord_a, 0), fin.page)>>
    /\ UNCHANGED <<fin, sc, pu, poolVars, sigVars, offAux>>

----------------------------------------------------------------------------
(* scrape_page(driver, url, retries): kenyalaw2.py:288-304, kenyalaw.py:193-208 *)
(* The two differ in the length of the sleep and in what is returned along  *)
(* with the document.                                                       *)

MaxRetries == 3    \* the values of retries tried: 0..MaxRetries

\* what one attempt can come to: the page is parsed, driver.get raises, the
\* wait for <body> times out, or reading page_source raises
Attempts == {"ok", "get", "wait", "source"}

\* a loop that makes one attempt more than retries
InRange_OneMore(attempt, retries) == attempt <= retries

\* "for attempt in range(retries)": the loop body runs for this attempt
InRange(attempt, retries) == attempt < retries

\* kenyalaw2.py:298: the failed attempt is followed by another one
RetriesLeft(attempt, retries) == attempt < retries - 1

\* kenyalaw2.py:290-303: one pass of the loop body
ScrapeAttempt ==
    /\ sc.pc = "try" /\ InRange(sc.attempt, sc.retries)
    /\ \E a \in Attempts :
         sc' = IF a = "ok"
               THEN [sc EXCEPT !.tries = Append(@, a), !.pc = "done", !.ret = "soup"]
               ELSE IF RetriesLeft(sc.attempt, sc.retries)
               THEN [sc EXCEPT !.tries = Append(@, a), !.pc = "sleep"]
               ELSE [sc EXCEPT !.tries = Append(@, a), !.pc = "done", !.ret = "None"]
    /\ UNCHANGED <<fin, fout, pu, poolVars, sigVars, offAux>>

\* kenyalaw2.py:299-300: time.sleep(2) is over, the loop takes the next attempt
ScrapeSleep ==
    /\ sc.pc = "sleep"
    /\ sc' = [sc EXCEPT !.pc = "try", !.attempt = @ + 1]
    /\ UNCHANGED <<fin, fout, pu, poolVars, sigVars, offAux>>

\* kenyalaw2.py:304: the range is used up, "return None"
ScrapeExhausted ==
    /\ sc.pc = "try" /\ ~InRange(sc.attempt, sc.retries)
    /\ sc' = [sc EXCEPT !.pc = "done", !.ret = "None"]
    /\ UNCHANGED <<fin, fout, pu, poolVars, sigVars, offAux>>

----------------------------------------------------------------------------
(* process_and_upsert and its scratch file temp_path: pineconeupsertion.py  *)
(* 127-251.  The body writes the file when the download gets as far as      *)
(* open(); the finally removes it when it exists.  os.remove is taken to   *)
(* succeed on a file the process itself has just written.                   *)

MaxCalls == 2    \* calls of process_and_upsert made one after another

\* a finally that leaves the file where it is
AfterCleanup_Keep(file) == file

\* pineconeupsertion.py:247-249: "if os.path.exists(temp_path): os.remove(temp_path)"
AfterCleanup(file) == IF file = "present" THEN "absent" ELSE file

\* pineconeupsertion.py:133-243: the body ends, by a return or by falling
\* through, in one of the ways of process_and_upsert; the download fails,
\* or an unexpected exception comes, before the file is opened or after
UpsertBody ==
    /\ pu.pc = "call"
    /\ \E k \in Keys, opened \in BOOLEAN : \E out \in process_and_upsert(BlobOf(k)) :
          LET wrote == IF out \in {DownloadFailed, GeneralError} THEN opened ELSE TRUE
          IN  pu' = [pu EXCEPT !.pc = "finally", !.n = @ + 1, !.key = k,
                        !.type = out.file_type, !.wrote = wrote, !.removed = FALSE,
                        !.file = IF wrote THEN "present" ELSE @]
    /\ UNCHANGED <<fin, fout, sc, poolVars, sigVars, offAux>>

\* pineconeupsertion.py:245-251
UpsertFinally ==
    /\ pu.pc = "finally"
    /\ pu' = [pu EXCEPT !.pc = "returned", !.removed = pu.file = "present",
                        !.file = AfterCleanup(@)]
    /\ UNCHANGED <<fin, fout, sc, poolVars, sigVars, offAux>>

\* run_indexer goes on to its next key
UpsertAgain ==
    /\ pu.pc = "returned" /\ pu.n < MaxCalls
    /\ pu' = [pu EXCEPT !.pc = "call"]
    /\ UNCHANGED <<fin, fout, sc, poolVars, sigVars, offAux>>

----------------------------------------------------------------------------
(* DriverPool used by concurrent callers, its drivers told apart. The pool *)
(* of kenyalaw2.py creates under its lock and up to max_size; the pool of  *)
(* kenyalaw.py creates whenever it finds the queue empty.                  *)

MaxDrivers  == 4     \* drivers started over the life of a pool
MaxPoolSize == 2     \* the sizes a pool is built with: 1..MaxPoolSize

Callers  == {"c1", "c2", "c3"}
Variants == {"kenyalaw2", "kenyalaw"}
NoDriver == 0

\* the DriverPool object: the queue, active_drivers, the holder of self.lock,
\* the drivers started so far and the ones torn down by the pool
DriverPool(variant, size, n) ==
    [variant |-> variant, max_size |-> size,
     drivers |-> [i \in 1..n |-> i], active_drivers |-> 1..n,
     lock |-> "", made |-> n, quit |-> {}]

\* kenyalaw2.py:177-189 one initial driver, kenyalaw.py:119-129 size
\* drivers; a driver that fails to start is left out
InitialPools ==
    {DriverPool("kenyalaw2", size, n) : size \in 1..MaxPoolSize, n \in 0..1} \cup
    UNION {{DriverPool("kenyalaw", size, n) : n \in 0..size} : size \in 1..MaxPoolSize}

\* a caller: where it stands, the driver it holds, and the driver it gave
\* back last with the outcome of the test
IdleCaller == [pc |-> "idle", driver |-> NoDriver, returned |-> NoDriver, probe |-> ""]

Holding(driver) == [pc |-> "holding", driver |-> driver, returned |-> NoDriver, probe |-> ""]

PoolIdle ==
    /\ dp = DriverPool("kenyalaw2", 1, 0)
    /\ callers = [c \in Callers |-> IdleCaller]

Held == {callers[c].driver : c \in Callers} \ {NoDriver}

\* a get that leaves the driver on the queue
TakeFromQueue_Peek(c) ==
    /\ callers[c].pc \in {"idle", "wait"}
    /\ dp.drivers # <<>>
    /\ callers' = [callers EXCEPT ![c] = Holding(Head(dp.drivers))]
    /\ UNCHANGED <<dp, fnVars, sigVars, offAux>>

\* self.drivers.get(): kenyalaw2.py:208 and 220, kenyalaw.py:133-135 (under
\* the lock)
TakeFromQueue(c) ==
    /\ callers[c].pc \in {"idle", "wait"}
    /\ dp.drivers # <<>>
    /\ dp.variant = "kenyalaw" => callers[c].pc = "idle" /\ dp.lock = ""
    /\ dp' = [dp EXCEPT !.drivers = Tail(@)]
    /\ callers' = [callers EXCEPT ![c] = Holding(Head(dp.drivers))]
    /\ UNCHANGED <<fnVars, sigVars, offAux>>

\* kenyalaw2.py:208-209: the queue stayed empty, the caller goes for the
\* lock.  kenyalaw.py:133-136: the queue is empty, the caller leaves the
\* lock and creates.
FindEmpty(c) ==
    /\ callers[c].pc = "idle"
    /\ dp.drivers = <<>>
    /\ dp.variant = "kenyalaw" => dp.lock = ""
    /\ callers' = [callers EXCEPT ![c].pc =
                      IF dp.variant = "kenyalaw2" THEN "lock" ELSE "create"]
    /\ UNCHANGED <<dp, fnVars, sigVars, offAux>>

\* kenyalaw2.py:211-212: under the lock the caller goes on to create when
\* active_drivers is below max_size, and leaves the lock to wait otherwise
Lock(c) ==
    /\ callers[c].pc = "lock"
    /\ dp.lock = ""
    /\ IF Cardinality(dp.active_drivers) < dp.max_size
       THEN /\ dp' = [dp EXCEPT !.lock = c]
            /\ callers' = [callers EXCEPT ![c].pc = "create"]
       ELSE /\ callers' = [callers EXCEPT ![c].pc = "wait"]
            /\ UNCHANGED dp
    /\ UNCHANGED <<fnVars, sigVars, offAux>>

\* kenyalaw2.py:213-216 create_new_driver inside the lock; kenyalaw.py:137-140
\* initialize_driver outside it.  A driver that does not start gives None
\* in kenyalaw.py and sends the caller of kenyalaw2.py to wait on the queue.
CreateDriver(c) ==
    /\ callers[c].pc = "create"
    /\ \/ /\ dp.made < MaxDrivers
          /\ dp' = [dp EXCEPT !.made = @ + 1,
                       !.active_drivers = @ \cup {dp.made + 1},
                       !.lock = IF @ = c THEN "" ELSE @]
          /\ callers' = [callers EXCEPT ![c] = Holding(dp.made + 1)]
       \/ /\ dp' = [dp EXCEPT !.lock = IF @ = c THEN "" ELSE @]
          /\ callers' = [callers EXCEPT ![c].pc =
                            IF dp.variant = "kenyalaw2" THEN "wait" ELSE "idle"]
    /\ UNCHANGED <<fnVars, sigVars, offAux>>

\* a wait on the queue without a timeout
GiveUp_Never(c) ==
    /\ callers[c].pc = "wait"
    /\ FALSE
    /\ UNCHANGED vars

\* kenyalaw2.py:221-223: nothing came back within the timeout
GiveUp(c) ==
    /\ callers[c].pc = "wait"
    /\ dp.drivers = <<>>
    /\ callers' = [callers EXCEPT ![c].pc = "idle"]
    /\ UNCHANGED <<dp, fnVars, sigVars, offAux>>

\* a driver that failed its test goes back into the queue all the same
cleanup_single_driver_Requeue(p, driver) ==
    [p EXCEPT !.drivers = Append(@, driver)]

\* kenyalaw2.py:236-243, kenyalaw.py:154-161
cleanup_single_driver(p, driver) ==
    [p EXCEPT !.active_drivers = @ \ {driver}, !.quit = @ \cup {driver}]

\* kenyalaw2.py:225-234, kenyalaw.py:143-152 (the put under the lock):
\* driver.current_url answers or raises
ReturnDriver(c) ==
    /\ callers[c].pc = "holding"
    /\ \E ok \in BOOLEAN :
         /\ ok /\ dp.variant = "kenyalaw" => dp.lock = ""
         /\ dp' = IF ok THEN [dp EXCEPT !.drivers = Append(@, callers[c].driver)]
                   ELSE cleanup_single_driver(dp, callers[c].driver)
         /\ callers' = [callers EXCEPT ![c] =
                           [pc |-> "idle", driver |-> NoDriver,
                            returned |-> callers[c].driver,
                            probe |-> IF ok THEN "ok" ELSE "failed"]]
    /\ UNCHANGED <<fnVars, sigVars, offAux>>

----------------------------------------------------------------------------
(* A crawler process under signals.  The main thread is a stack of frames, *)
(* the top one running; a signal puts signal_handler on top of whatever    *)
(* runs, and sys.exit(0) in the handler raises SystemExit through the      *)
(* frames below it.  kenyalaw2.py walks on the main thread alone and owns  *)
(* a DriverPool; kenyalaw_requests.py hands the detail pages of a letter   *)
(* to a ThreadPoolExecutor.                                                *)

MaxSignals  == 2     \* signals delivered to a process
MaxTasks    == 2     \* detail links submitted for one letter
max_workers == 3     \* kenyalaw_requests.py:332

SigVariants == {"kenyalaw2", "kenyalaw_requests"}
Levels      == {"year", "month", "letter", "page"}

\* the process: the flag, the frames of the main thread, the child the
\* walker is about to enter, the pool (drivers queued, len(active_drivers),
\* the driver handed to the walker: none, live or quit), the executor
\* (tasks not started, tasks in extract_document_link, tasks in
\* download_document_to_s3), the signals delivered, whether the process has
\* exited, and the children started while the flag was set
NewProc(variant, n) ==
    [variant |-> variant, cleanup_initiated |-> FALSE, stack |-> <<"walk">>,
     child |-> "", drivers |-> n, active_drivers |-> n, held |-> "none",
     pending |-> 0, resolving |-> 0, persisting |-> 0,
     signals |-> 0, exited |-> FALSE, after |-> {}]

NoProc == [NewProc("", 0) EXCEPT !.stack = <<>>]

SigIdle == proc = NoProc

Top(stack)         == stack[Len(stack)]
SetTop(stack, f)   == [stack EXCEPT ![Len(stack)] = f]
Pop(stack)         == SubSeq(stack, 1, Len(stack) - 1)
Running(f)         == proc.stack # <<>> /\ Top(proc.stack) = f
Is(variant)        == proc.variant = variant

\* child started by p: remembered when the flag was already set
Started(p, child) ==
    [p EXCEPT !.after = IF p.cleanup_initiated THEN @ \cup {child} ELSE @]

\* signal.signal(SIGINT / SIGTERM, signal_handler): kenyalaw2.py:65-66,
\* kenyalaw_requests.py:51-52; the handler runs on the main thread
Signal ==
    /\ proc.stack # <<>>
    /\ proc.signals < MaxSignals
    /\ proc' = [proc EXCEPT !.signals = @ + 1, !.stack = Append(@, "handler")]
    /\ UNCHANGED <<fnVars, poolVars, offAux>>

\* kenyalaw2.py:57-62: the first handler sets the flag and calls
\* cleanup_all_resources, a later one goes straight to sys.exit;
\* kenyalaw_requests.py:44-48 has nothing to clean up
Handler ==
    /\ Running("handler")
    /\ proc' = [proc EXCEPT !.cleanup_initiated = TRUE,
                   !.stack = IF Is("kenyalaw2") /\ ~proc.cleanup_initiated
                             THEN Append(SetTop(@, "sys.exit"), "cleanup")
                             ELSE SetTop(@, "sys.exit")]
    /\ UNCHANGED <<fnVars, poolVars, offAux>>

\* kenyalaw2.py:248-255: one queued driver is taken and quit
DrainQueue ==
    /\ Running("cleanup")
    /\ proc.drivers > 0
    /\ proc' = [proc EXCEPT !.drivers = @ - 1]
    /\ UNCHANGED <<fnVars, poolVars, offAux>>

\* kenyalaw2.py:257-261: the queue is empty; the active drivers are quit
\* and the list is cleared; kill_existing_chrome follows (line 624)
ClearActive ==
    /\ Running("cleanup")
    /\ proc.drivers = 0
    /\ proc' = [proc EXCEPT !.active_drivers = 0,
                   !.held = IF @ = "live" THEN "quit" ELSE @,
                   !.stack = SetTop(@, "kill")]
    /\ UNCHANGED <<fnVars, poolVars, offAux>>

\* kenyalaw2.py:68-94 kill_existing_chrome returns
KillDone ==
    /\ Running("kill")
    /\ proc' = [proc EXCEPT !.stack = Pop(@)]
    /\ UNCHANGED <<fnVars, poolVars, offAux>>

\* kenyalaw2.py:225-243 return_driver on the walker's driver: a live one
\* answers and is queued or fails and leaves active_drivers, one that was
\* quit fails
return_held(p) ==
    IF p.held = "live"
    THEN {[p EXCEPT !.held = "none", !.drivers = @ + 1],
          [p EXCEPT !.held = "none",
              !.active_drivers = IF @ > 0 THEN @ - 1 ELSE 0]}
    ELSE {[p EXCEPT !.held = "none"]}

\* SystemExit raised on top of the stack of p: the states it can lead to.
\* The bare except of kenyalaw2.py:89 swallows it when it passes the rmtree
\* of a kill_existing_chrome below, and lets it pass elsewhere in that
\* function; else it leaves process_single_document through its finally (495-497), reaches
\* the finally of __main__ (654-658), and ends the process when raised
\* inside that.  kenyalaw_requests.py leaves the with block of the executor
\* (332), which waits for the tasks, and has no finally.
Unwind(p) ==
    LET s     == p.stack
        kills == {i \in DOMAIN s : s[i] = "kill"}
        to(f) == [p EXCEPT !.stack = <<f>>]
    IN  {[p EXCEPT !.stack = SubSeq(s, 1, i)] : i \in kills} \cup
        {IF s[1] \in {"finally", "end", "shutdown"}
         THEN [p EXCEPT !.stack = <<>>, !.exited = TRUE]
         ELSE IF p.variant = "kenyalaw_requests"
         THEN IF s[1] = "as_completed" THEN to("shutdown")
              ELSE [p EXCEPT !.stack = <<>>, !.exited = TRUE]
         ELSE IF s[1] \in {"resolve", "persist"} /\ p.held # "none"
         THEN to("unwind_return")
         ELSE to("finally")}

\* kenyalaw2.py:63, kenyalaw_requests.py:49
SysExit ==
    /\ Running("sys.exit")
    /\ proc' \in Unwind(proc)
    /\ UNCHANGED <<fnVars, poolVars, offAux>>

\* kenyalaw2.py:495-497 while SystemExit passes
UnwindReturn ==
    /\ Running("unwind_return")
    /\ \E p \in return_held(proc) : proc' = [p EXCEPT !.stack = <<"finally">>]
    /\ UNCHANGED <<fnVars, poolVars, offAux>>

\* the head of a loop with "if cleanup_initiated: break" (kenyalaw2.py:505,
\* 519, 529, 559, 573; kenyalaw_requests.py:310, 323, 365, 376): the next
\* child is chosen, or the walk is over
CheckLoop ==
    /\ Running("walk")
    /\ IF proc.cleanup_initiated
       THEN proc' = [proc EXCEPT !.stack = <<IF Is("kenyalaw2") THEN "finally" ELSE "end">>]
       ELSE \E k \in Levels \cup (IF Is("kenyalaw2") THEN {"detail"} ELSE {}) :
               proc' = [proc EXCEPT !.stack = <<"enter">>, !.child = k]
    /\ UNCHANGED <<fnVars, poolVars, offAux>>

\* scrape_page / get_page for the year, month, letter or page chosen;
\* kenyalaw2.py:531 process_single_document for a detail link
Enter ==
    /\ Running("enter")
    /\ proc' = IF proc.child = "detail"
               THEN [proc EXCEPT !.stack = <<"get">>]
               ELSE [Started(proc, proc.child) EXCEPT !.stack = <<"fetch">>]
    /\ UNCHANGED <<fnVars, poolVars, offAux>>

FetchDone ==
    /\ Running("fetch")
    /\ proc' = [proc EXCEPT !.stack = <<"walk">>, !.child = ""]
    /\ UNCHANGED <<fnVars, poolVars, offAux>>

\* the walker holds a driver and goes into extract_document_link
Resolving(p) == [Started(p, "detail") EXCEPT !.held = "live", !.stack = <<"resolve">>]

\* kenyalaw2.py:204-223 on the main thread: a queued driver, or a new one
\* when active_drivers is below max_size; a first attempt that fails is
\* followed by kill_existing_chrome (193-199); else None
GetDriver ==
    /\ Running("get")
    /\ IF proc.drivers > 0
       THEN proc' = Resolving([proc EXCEPT !.drivers = @ - 1])
       ELSE IF proc.active_drivers < max_size
       THEN \/ proc' = Resolving([proc EXCEPT !.active_drivers = @ + 1])
            \/ proc' = [proc EXCEPT !.stack = <<"retry", "kill">>]
       ELSE proc' = [proc EXCEPT !.stack = <<"walk">>, !.child = ""]
    /\ UNCHANGED <<fnVars, poolVars, offAux>>

\* kenyalaw2.py:199-202, 214-223: the attempt after kill_existing_chrome
Retry ==
    /\ Running("retry")
    /\ \/ proc' = Resolving([proc EXCEPT !.active_drivers = @ + 1])
       \/ proc' = [proc EXCEPT !.stack = <<"walk">>, !.child = ""]
    /\ UNCHANGED <<fnVars, poolVars, offAux>>

\* kenyalaw2.py:487-491: a document link is found and download_document_to_s3
\* starts, or there is none
Resolved ==
    /\ Running("resolve")
    /\ \/ proc' = [Started(proc, "persist") EXCEPT !.stack = <<"persist">>]
       \/ proc' = [proc EXCEPT !.stack = <<"return">>]
    /\ UNCHANGED <<fnVars, poolVars, offAux>>

PersistDone ==
    /\ Running("persist")
    /\ proc' = [proc EXCEPT !.stack = <<"return">>]
    /\ UNCHANGED <<fnVars, poolVars, offAux>>

\* kenyalaw2.py:495-497
Returned ==
    /\ Running("return")
    /\ \E p \in return_held(proc) : proc' = [p EXCEPT !.stack = <<"walk">>, !.child = ""]
    /\ UNCHANGED <<fnVars, poolVars, offAux>>

\* kenyalaw_requests.py:331-334: every detail link of the letter is
\* submitted to the executor
Submit ==
    /\ Running("walk") /\ Is("kenyalaw_requests")
    /\ \E n \in 1..MaxTasks :
          proc' = [proc EXCEPT !.pending = n, !.stack = <<"as_completed">>]
    /\ UNCHANGED <<fnVars, poolVars, offAux>>

\* kenyalaw_requests.py:292-296: a pool thread takes a submitted task and
\* goes into extract_document_link
StartTask ==
    /\ ~proc.exited
    /\ proc.pending > 0
    /\ proc.resolving + proc.persisting < max_workers
    /\ proc' = [Started(proc, "detail") EXCEPT !.pending = @ - 1, !.resolving = @ + 1]
    /\ UNCHANGED <<fnVars, poolVars, offAux>>

\* kenyalaw_requests.py:297-300: download_document_to_s3 starts, or the task
\* ends without a document link
TaskResolved ==
    /\ proc.resolving > 0
    /\ \/ proc' = [Started(proc, "persist") EXCEPT !.resolving = @ - 1,
                                                   !.persisting = @ + 1]
       \/ proc' = [proc EXCEPT !.resolving = @ - 1]
    /\ UNCHANGED <<fnVars, poolVars, offAux>>

TaskDone ==
    /\ proc.persisting > 0
    /\ proc' = [proc EXCEPT !.persisting = @ - 1]
    /\ UNCHANGED <<fnVars, poolVars, offAux>>

NoTasks == proc.pending = 0 /\ proc.resolving = 0 /\ proc.persisting = 0

\* kenyalaw_requests.py:336-345: every future has completed
AsCompleted ==
    /\ Running("as_completed")
    /\ NoTasks
    /\ proc' = [proc EXCEPT !.stack = <<"walk">>]
    /\ UNCHANGED <<fnVars, poolVars, offAux>>

\* the executor's __exit__ has waited for the tasks; SystemExit goes on
Shutdown ==
    /\ Running("shutdown")
    /\ NoTasks
    /\ proc' = [proc EXCEPT !.stack = <<>>, !.exited = TRUE]
    /\ UNCHANGED <<fnVars, poolVars, offAux>>

\* the loops are through: kenyalaw2.py:602-615 and on to the finally of
\* __main__; kenyalaw_requests.py:397-408 and the end of __main__
Finish ==
    /\ Running("walk")
    /\ proc' = [proc EXCEPT !.stack = <<IF Is("kenyalaw2") THEN "finally" ELSE "end">>]
    /\ UNCHANGED <<fnVars, poolVars, offAux>>

\* kenyalaw2.py:654-658
Finally ==
    /\ Running("finally")
    /\ proc' = [proc EXCEPT !.cleanup_initiated = TRUE, !.stack = <<"end", "cleanup">>]
    /\ UNCHANGED <<fnVars, poolVars, offAux>>

\* the last statement of __main__ has run
Exit ==
    /\ Running("end")
    /\ proc' = [proc EXCEPT !.stack = <<>>, !.exited = TRUE]
    /\ UNCHANGED <<fnVars, poolVars, offAux>>

AuxIdle == FnIdle /\ PoolIdle /\ SigIdle

----------------------------------------------------------------------------
(* Process life cycle *)

\* the process is killed and started again: module globals are re-initialised
\* (kenyalaw2.py:51), the bucket keeps its objects
Restart ==
    /\ run < MaxRestarts
    /\ run' = run + 1
    /\ processed_urls' = {}
    /\ th' = [t \in Threads |-> IdleThread]
    /\ UNCHANGED <<now, store, putLog, offPersist>>

\* time passes
Tick ==
    /\ now < MaxClock
    /\ now' = now + 1
    /\ UNCHANGED <<persistVars, keyVars, indexVars, walkVars, auxVars>>

PersistInit ==
    /\ now = 0
    /\ run = 0
    /\ processed_urls = {}
    /\ store = {}
    /\ th = [t \in Threads |-> IdleThread]
    /\ putLog = {}

KeyIdle == /\ kin = [url |-> NoURL, ctx |-> <<"", "">>]
           /\ kout = <<>>

Init == PersistInit /\ KeyIdle /\ IndexIdle /\ WalkIdle /\ AuxIdle

Next ==
    \/ \E t \in Workers, url \in AssetURLs, ctx \in CrawlContexts : Call(t, url, ctx)
    \/ \E t \in Workers : CheckAndInsert(t)
    \/ \E t \in Workers : DeriveKey(t)
    \/ \E t \in Workers : HeadObject(t)
    \/ \E t \in Workers : HttpGet(t)
    \/ \E t \in Workers : PutObject(t)
    \/ Restart
    \/ Tick

\* concurrent persist calls, clock and restarts
Spec == Init /\ [][Next]_vars

----------------------------------------------------------------------------
(* Properties of the AssetPersister *)

Done(t)     == th[t].pc = "done"
CallsOf(u)  == {t \in Workers : th[t].url = u}
Passes(u)   == Cardinality({t \in CallsOf(u) : th[t].passed})
Fetches(u)  == Cardinality({t \in CallsOf(u) : th[t].fetched})
Puts(u)     == Cardinality({t \in CallsOf(u) : th[t].stored})

\* two calls for the same URL that overlapped in time and have both returned
ConcurrentPair(a, b) ==
    /\ a # b
    /\ th[a].url = th[b].url
    /\ th[a].conc \/ th[b].conc
    /\ Done(a) /\ Done(b)

\* C1 as stated: two concurrent calls for one asset URL lead to exactly one
\* HTTP fetch of it (and at most one pass of the visited check and one put);
\* read in the claim's favour, for calls whose key derivation and existence
\* probe did not fail.
C1_ExactlyOneFetch ==
    \A a, b \in Workers :
        (ConcurrentPair(a, b) /\ th[a].probe \in {"found", "404"}) =>
            /\ Passes(th[a].url) <= 1
            /\ Fetches(th[a].url) = 1
            /\ Puts(th[a].url) <= 1

\* C1 amended: within one process run, for every asset URL at most one call
\* gets past the visited check-and-insert, so at most one HTTP fetch of the URL
\* and at most one put_object by its calls happen.
C1_AtMostOneFetch ==
    \A u \in AssetURLs : Passes(u) <= 1 /\ Fetches(u) <= 1 /\ Puts(u) <= 1

C1_Witness ==
    \E a, b \in Workers :
        /\ ConcurrentPair(a, b)
        /\ th[a].stored
        /\ ~th[b].passed

\* C2 as stated: when two concurrent calls for one asset URL have returned and
\* the fetch-and-store succeeded, both return the same stored reference.
C2_BothSameReference ==
    \A a, b \in Workers :
        (ConcurrentPair(a, b) /\ th[a].stored) => th[a].ret = th[b].ret

\* C2 amended: when two concurrent calls for one asset URL have returned and
\* the fetch-and-store succeeded, the call that stored returns the s3://
\* reference of the key and the other call returns None.
C2_OneReferenceOneNone ==
    \A a, b \in Workers :
        (ConcurrentPair(a, b) /\ th[a].stored) =>
            /\ th[a].ret = S3Ref(th[a].key)
            /\ th[b].ret = None

C2_Witness ==
    \E a, b \in Workers :
        /\ ConcurrentPair(a, b)
        /\ th[a].stored
        /\ th[b].conc

\* the puts of earlier process runs for the asset and context of t's call
EarlierPuts(t) ==
    {p \in putLog : p.run < run /\ p.url = th[t].url /\ p.ctx = th[t].ctx}

\* C4: after a restart, a persist call for an asset that an earlier run
\* stored under the same context, whose existence probe answers truthfully,
\* returns the existing reference and does no HTTP fetch and no put_object.
C4_RestartShortCircuits ==
    \A t \in Workers :
        (/\ Done(t) /\ th[t].passed
         /\ th[t].probe \in {"found", "404"}
         /\ EarlierPuts(t) # {})
        => /\ \E p \in EarlierPuts(t) : th[t].ret = S3Ref(p.key)
           /\ ~th[t].fetched
           /\ ~th[t].stored

\* the URLs whose check-and-insert went through in this process run
PassedURLs == {th[t].url : t \in {w \in Threads : th[w].passed}}

\* C21: processed_urls is empty when the process starts and only grows: it
\* holds every URL a call of this run got past the check with, also when
\* that call then failed, and nothing is taken out while the process runs;
\* a call that finds its URL in the set returns None without a probe, a
\* fetch or a put.
C21_VisitedOnlyGrows ==
    /\ [](processed_urls = PassedURLs)
    /\ [](\A t \in Threads :
            Done(t) /\ ~th[t].passed =>
               /\ th[t].ret = None /\ th[t].probe = ""
               /\ ~th[t].fetched /\ ~th[t].stored)
    /\ [][run' = run => processed_urls \subseteq processed_urls']_vars
    /\ [][\A t \in Threads :
            (/\ run' = run /\ th[t].pc = "check" /\ th'[t].pc # "check"
             /\ th[t].url \in processed_urls) =>
               th'[t].pc = "done" /\ th'[t].ret = None /\ ~th'[t].passed]_vars

\* C21 witness: a call for a URL failed after the check (the probe gave a
\* 500), and a later call for the same URL returned None at the check
C21_Witness ==
    \E a, b \in Workers :
        /\ a # b /\ th[a].url = th[b].url
        /\ Done(a) /\ th[a].passed /\ th[a].probe = "500" /\ th[a].ret = None
        /\ Done(b) /\ ~th[b].passed /\ ~th[b].conc /\ th[b].ret = None
        /\ th[a].url \in processed_urls

\* C35: within one run each storage key is written by put_object at most
\* once, and a put never replaces an object that is in the store, for calls
\* on distinct asset URLs too.
C35_KeyWrittenOnce ==
    /\ [](\A p, q \in putLog : p.run = q.run /\ p.key = q.key => p = q)
    /\ [][\A t \in Threads :
            th[t].pc = "put" /\ th'[t].stored => ~HasObject(th[t].key)]_vars

\* C36: a reference a call returns designates an object whose bytes were
\* fetched from the asset URL of that call.
C36_ReferenceIsOwnAsset ==
    \A t \in Threads :
        Done(t) /\ th[t].ret # None =>
            \E o \in store : S3Ref(o.key) = th[t].ret /\ o.src = th[t].url

\* the existence probe of t's call ended in an error
ProbeFailed(t) == th[t].probe \in {"404", "403", "500", "raise"}

\* C19: a probe that fails for any reason other than the object being absent
\* (a 403, a 500, another exception) makes the call return None with no
\* fetch and no put; only an absent object lets it go on to the fetch.
C19_OnlyAbsentProceeds ==
    \A t \in Threads :
        ProbeFailed(t) /\ th[t].probe # "404" =>
            /\ Done(t) /\ th[t].ret = None
            /\ ~th[t].fetched /\ ~th[t].stored

\* the response is a 200 with a body that is not empty
GoodResponse(resp) == resp.status = 200 /\ resp.len > 0

\* C20: put_object is issued only with the non-empty body of a 200
\* response; a response that is empty or not a 200 makes the call return
\* None and leaves the store as it was.
C20_PutOnlyGoodBody ==
    /\ [](\A t \in Threads :
            /\ th[t].pc = "put" \/ th[t].stored => GoodResponse(th[t].resp)
            /\ th[t].fetched /\ ~GoodResponse(th[t].resp) =>
                  Done(t) /\ th[t].ret = None /\ ~th[t].stored)
    /\ [][\A t \in Threads :
            th[t].pc = "get" /\ th'[t].fetched /\ ~GoodResponse(th'[t].resp) =>
               store' = store /\ putLog' = putLog]_vars
    /\ [][store' # store =>
            \E t \in Threads : th[t].pc = "put" /\ GoodResponse(th[t].resp)]_vars

\* C20 witness: one call got an empty 200 and returned None, another got a
\* 200 with a body and stored it
C20_Witness ==
    \E a, b \in Workers :
        /\ th[a].resp = [status |-> 200, len |-> 0] /\ Done(a) /\ th[a].ret = None
        /\ th[b].resp = [status |-> 200, len |-> 1] /\ th[b].stored

----------------------------------------------------------------------------
(* Key derivation as a pure function: the same inputs, computed twice at   *)
(* whatever the clock shows.                                               *)

KeyCompute ==
    /\ Len(kout) < 2
    /\ kout' = Append(kout, derive_key(kin.url, kin.ctx, now))
    /\ UNCHANGED <<now, kin, persistVars, indexVars, walkVars, auxVars>>

KeyInit ==
    /\ PersistInit
    /\ IndexIdle
    /\ WalkIdle
    /\ AuxIdle
    /\ kin \in [url : AllURLs, ctx : Contexts]
    /\ kout = <<>>

KeyNext == KeyCompute \/ Tick

KeySpec == KeyInit /\ [][KeyNext]_vars

\* C3: the storage key is a function of (asset URL, folder, year, month)
\* alone: two computations from the same inputs give the same key whatever
\* the clock shows at each.
C3_KeyDeterministic == Len(kout) = 2 => kout[1] = kout[2]

\* C22: key derivation names a file for every asset URL: a URL of the
\* '/source' shape gets court_year_caseId.pdf and every other URL, one
\* whose path splits into exactly 6 parts included, gets a timestamp or
\* basename filename; no derivation fails.
C22_EveryURLNamed == \A i \in DOMAIN kout : kout[i] # KeyError

----------------------------------------------------------------------------
(* The crawl: kenyalaw2.py __main__ *)

\* objects an earlier run can have left in the bucket
EarlierStores ==
    {{}, {[key |-> derive_key(U_full, <<"2024", "January">>, 0), src |-> U_full]}}

WalkInit ==
    /\ now = 0
    /\ run = 0
    /\ processed_urls = {}
    /\ store \in EarlierStores
    /\ th = [t \in Threads |-> IdleThread]
    /\ putLog = {}
    /\ KeyIdle
    /\ IndexIdle
    /\ AuxIdle
    /\ site \in Sites
    /\ walk = [IdleWalk EXCEPT !.pc = "root"]
    /\ driver_pool \in NewPools
    /\ written = NoFile
    /\ trace = NoTrace

WalkNext ==
    \/ ScrapeRoot
    \/ NextYear
    \/ NextMonth
    \/ NextLetter
    \/ NextPage
    \/ NextDocument
    \/ CheckAndInsert("main")
    \/ DeriveKey("main")
    \/ HeadObject("main")
    \/ HttpGet("main")
    \/ PutObject("main")
    \/ DocumentDone
    \/ Fallback
    \/ SaveResults

WalkSpec == WalkInit /\ [][WalkNext]_vars

----------------------------------------------------------------------------
(* Properties of the crawl *)

\* final_page_scrapper has returned
Finished == walk.pc = "done"

\* the references process_single_document has returned so far
Persisted == {e.result : e \in Range(trace.log)} \ {None}

Count(lines, r) == Cardinality({j \in DOMAIN lines : lines[j] = r})

\* C5: at the end of a run whose output file was written, every asset that
\* was persisted successfully has its reference on exactly one line, also
\* when several detail pages led to that asset, and the lines are exactly
\* the references of the assets persisted.
C5_OneReferencePerAsset ==
    Finished /\ written.saved =>
        /\ \A r \in Persisted : Count(written.lines, r) = 1
        /\ Range(written.lines) = Persisted
        /\ walk.all_downloadable_links = Persisted

\* C5 witness: two detail pages in different pages of a partition resolved to
\* the same asset, it was persisted, and the file written has its reference once
C5_Witness ==
    /\ Finished /\ written.saved
    /\ \E i, j \in DOMAIN trace.log :
          /\ trace.log[i].link = "D1" /\ trace.log[j].link = "D2"
          /\ trace.log[i].url = U_full /\ trace.log[j].url = U_full
          /\ trace.log[i].result # None
          /\ Count(written.lines, trace.log[i].result) = 1

LinksOf(log) == [i \in DOMAIN log |-> log[i].link]

IsPrefix(a, b) == Len(a) <= Len(b) /\ SubSeq(b, 1, Len(a)) = a

\* every year, month, letter and page the walk has come to know was asked for
TraversalComplete ==
    /\ \A i \in DOMAIN walk.years_links : Link(walk.years_links[i], 0, 0) \in trace.seen
    /\ \A l \in trace.seen : l.alphabet # 0 =>
          /\ Range(extract_alphabetical_links(l.base)) \subseteq trace.seen
          /\ \A n \in Pagination(site, Link(l.base, l.alphabet, 0)) :
                l.page # 0 => Link(l.base, l.alphabet, n) \in trace.seen
          /\ \A i \in DOMAIN walk.years_links :
                LET months_links == months_links_extract(site, walk.years_links[i])
                IN  l.base \in Range(months_links) /\ ~walk.fallback =>
                       \A m \in Range(months_links) : Link(m, ord_a, 0) \in trace.seen

\* C6: a detail page whose processing fails (no driver, no document link,
\* key derivation, probe, download or store write) has result None, and the
\* walk goes on: the detail links are processed in the order they were
\* collected, none is left out, and at the end of the run every collected
\* detail link has been processed and every year, month, letter and page
\* has been asked for.
C6_FailureNeverAborts ==
    /\ \A i \in DOMAIN trace.log : trace.log[i].result # None <=> trace.log[i].ok
    /\ IsPrefix(LinksOf(trace.log), trace.listed)
    /\ Finished => LinksOf(trace.log) = trace.listed /\ TraversalComplete

\* C6 witness: key derivation failed for one detail page of a partition, the
\* next detail page of the partition was persisted, and the run has ended
C6_Witness ==
    /\ Finished /\ written.saved
    /\ \E i \in DOMAIN trace.log :
          /\ trace.log[i].url = U_six /\ trace.log[i].result = None
          /\ i + 1 \in DOMAIN trace.log
          /\ trace.log[i + 1].link = "D4" /\ trace.log[i + 1].result # None
    /\ Link(target_url \o <<"2023", "5">>, ord_z, 0) \in trace.seen

\* the listing URLs a query can be asked for
QueryURLs ==
    {target_url} \cup
    {Append(target_url, y) : y \in {"2024", "2023"}} \cup
    {target_url \o <<y, m>> : y \in {"2024", "2023"}, m \in {"1", "2", "5"}}

\* the code point of the i-th letter of a..z
Letter(i) == 96 + i

\* the 26 partition URLs of u, each u + "?alphabet=" + letter
AlphabetOf(u) ==
    /\ Len(extract_alphabetical_links(u)) = 26
    /\ \A i \in 1..26 :
          extract_alphabetical_links(u)[i] = [base |-> u, alphabet |-> Letter(i), page |-> 0]

\* the partitions the walk still has to do are the tail of a..z for the
\* query it is in
LettersInOrder ==
    walk.pc \in {"letter", "page", "docs"} =>
        /\ Len(walk.letters) <= 26
        /\ \A i \in DOMAIN walk.letters :
              walk.letters[i].alphabet = Letter(26 - Len(walk.letters) + i)
        /\ \A i, j \in DOMAIN walk.letters : walk.letters[i].base = walk.letters[j].base

\* the walk enters a partition: its first page is asked for
EntersLetter ==
    /\ walk.pc = "letter" /\ walk.letters # <<>>
    /\ walk'.letters = Tail(walk.letters)

\* C11: extract_alphabetical_links(u) is exactly the 26 URLs u?alphabet=a ..
\* u?alphabet=z in that order, whatever the site shows, and the walk takes
\* the partitions of a query from a to z: a partition is entered only when
\* every detail link collected in the partitions before it has been
\* processed, and the partitions left are always the rest of the alphabet.
C11_AlphabetInOrder ==
    /\ [](\A u \in QueryURLs : AlphabetOf(u))
    /\ []LettersInOrder
    /\ [][EntersLetter =>
            /\ walk.docs = <<>> /\ walk.pages = <<>>
            /\ LinksOf(trace.log) = trace.listed
            /\ Head(walk.letters) \in trace'.seen
            /\ \A i \in 1..26 :
                  Letter(i) < Head(walk.letters).alphabet =>
                     Link(Head(walk.letters).base, Letter(i), 0) \in trace.seen]_vars

\* C25: a year, alphabet or pagination page whose fetch gives None costs
\* that subtree only: the walk goes on with the next year, letter or page,
\* what was collected before is kept, and the walk ends by writing the
\* collected set to the output file.
C25_FetchFailureSkipsSubtree ==
    [][walk' # walk =>
         /\ walk.pc = "year" /\ walk.years # <<>> =>
               /\ walk'.years = Tail(walk.years)
               /\ walk'.pc \in {"year", "month"}
         /\ walk.pc = "letter" /\ walk.letters # <<>> =>
               /\ walk'.letters = Tail(walk.letters)
               /\ walk'.pc \in {"letter", "page"}
               /\ walk'.years = walk.years /\ walk'.months = walk.months
               /\ walk'.all_documents = walk.all_documents
         /\ walk.pc = "page" /\ walk.pages # <<>> =>
               /\ walk'.pages = Tail(walk.pages)
               /\ walk'.letters = walk.letters
               /\ IsPrefix(walk.pdf_download_page_links, walk'.pdf_download_page_links)
               /\ walk'.all_documents = walk.all_documents
         /\ walk.pc \notin {"off", "root"} =>
               /\ walk.all_downloadable_links \subseteq walk'.all_downloadable_links
               /\ walk'.pc = "done" =>
                     /\ walk.pc = "save"
                     /\ Range(written'.lines) \subseteq walk.all_downloadable_links]_vars

\* C25 witness: the page of year 2024 could not be fetched, the walk went
\* on to 2023, and the run ended with the output file written
C25_Witness ==
    /\ Finished /\ written.saved
    /\ Link(target_url \o <<"2024">>, 0, 0) \in trace.seen
    /\ \A l \in trace.seen : l.base # target_url \o <<"2024", "1">>
    /\ Link(target_url \o <<"2023", "5">>, ord_z, 0) \in trace.seen

\* C25 witness: the first page of letter c could not be fetched while the
\* documents of letter d of the same month were collected and written
C25_WitnessLetter ==
    /\ Finished /\ written.saved /\ written.lines # <<>>
    /\ Link(target_url \o <<"2024", "1">>, 99, 0) \in trace.seen
    /\ Link(target_url \o <<"2024", "1">>, 99, 1) \notin trace.seen
    /\ Link(target_url \o <<"2024", "1">>, 99, 2) \notin trace.seen
    /\ \E i \in DOMAIN trace.log : trace.log[i].link = "D4" /\ trace.log[i].result # None

\* the links the next step of the walk calls scrape_page for
Fetching(w) ==
    CASE w.pc = "root" -> Link(target_url, 0, 0)
      [] w.pc = "year" /\ w.years # <<>> -> Link(Head(w.years), 0, 0)
      [] w.pc = "letter" /\ w.letters # <<>> -> Head(w.letters)
      [] w.pc = "page" /\ w.pages # <<>> -> Head(w.pages)
      [] OTHER -> Link(<<>>, 0, 0)

\* C24: in one crawl run no year, month, alphabet or pagination URL is
\* fetched more than once, on a site without year navigation and for a
\* letter without pagination as well.
C24_EachTargetOnce ==
    [][walk' # walk => Fetching(walk) \notin trace.seen]_vars

\* C18: on a site without year navigation (years_links = [target_url])
\* every asset is persisted under the context made from the current year
\* and month, not under one read from the path of the listing.
C18_FlatUsesClockContext ==
    site = "flat" /\ walk.years_links = <<target_url>> =>
        \A p \in putLog : p.ctx = ClockContext(now)

\* C11 witness: partition d of January 2024 has been entered, after the two
\* detail pages found in partition c were processed
C11_Witness ==
    /\ Link(target_url \o <<"2024", "1">>, 100, 0) \in trace.seen
    /\ LinksOf(trace.log) = <<"D1", "D2">>
    /\ Len(walk.letters) = 22

----------------------------------------------------------------------------
(* run_indexer *)

\* pineconeupsertion.py:276-279
RetryList ==
    /\ ipc = "start"
    /\ \E dbok \in BOOLEAN :
         \E q \in SeqsOf(IF dbok THEN get_failed_files(ledger) ELSE {}) :
            queue' = Take(q, RETRY_SLICE)
    /\ ipc' = "retry"
    /\ UNCHANGED <<ledger, cycle, last, upserted, retried, offIndex>>

\* pineconeupsertion.py:279-285
RetryOne ==
    /\ ipc = "retry" /\ queue # <<>>
    /\ \E dbok \in BOOLEAN :
         Process(Head(queue),
                 IF dbok THEN increment_retry_count(ledger, Head(queue)) ELSE ledger,
                 "Retry Failed")
    /\ retried' = [retried EXCEPT ![Head(queue)] = @ + 1]
    /\ UNCHANGED <<ipc, cycle, offIndex>>

\* pineconeupsertion.py:288-298
ListNew ==
    /\ ipc = "retry" /\ queue = <<>>
    /\ \E listok \in BOOLEAN, dbok \in BOOLEAN :
         LET objs == list_s3_files_sorted(Bucket, listok)
         IN  IF ~dbok /\ \E i \in DOMAIN objs : IsPdf(objs[i].key)
             THEN ipc' = MainLoopHandler /\ queue' = <<>>
             ELSE ipc' = "new" /\ queue' = Take(new_files(objs, ledger), BATCH_SIZE)
    /\ UNCHANGED <<ledger, cycle, last, upserted, retried, offIndex>>

\* pineconeupsertion.py:298-306
ProcessOne ==
    /\ ipc = "new" /\ queue # <<>>
    /\ Process(Head(queue), ledger, "Complete Failure")
    /\ UNCHANGED <<ipc, cycle, retried, offIndex>>

\* pineconeupsertion.py:314-315
Sleep ==
    /\ (ipc = "new" /\ queue = <<>>) \/ ipc = "sleep"
    /\ cycle < MaxCycles
    /\ cycle' = cycle + 1
    /\ ipc' = "start"
    /\ UNCHANGED <<ledger, queue, last, upserted, retried, offIndex>>

\* rows an earlier run of the indexer can have left in the table
InitialRows == {NoRow, Row("failed", 0, "PDF Error")}

IndexInit ==
    /\ PersistInit
    /\ KeyIdle
    /\ WalkIdle
    /\ AuxIdle
    /\ ledger \in {t \in [Keys -> InitialRows] : \A k \in Keys : t[k] # NoRow => IsPdf(k)}
    /\ ipc = "start"
    /\ queue = <<>>
    /\ cycle = 0
    /\ last = NoCall
    /\ upserted = [k \in Keys |-> 0]
    /\ retried = [k \in Keys |-> 0]

IndexNext == RetryList \/ RetryOne \/ ListNew \/ ProcessOne \/ Sleep

\* the indexer loop
IndexSpec == IndexInit /\ [][IndexNext]_vars

----------------------------------------------------------------------------
(* Properties of the indexer *)

\* some process_and_upsert call has returned
Called == last.n > 0

\* this step is a call process_and_upsert(k)
Invokes(k) == last'.n # last.n /\ last'.key = k

\* the ledger write of the latest call went through and its row is in place
Recorded ==
    ~last.dbFault => ledger[last.key] = Row(last.out.status, 0, last.out.file_type)

\* the loop is where it can take its next key, or its next cycle
GoesOn ==
    /\ ipc \in {"start", "retry", "new", "sleep"}
    /\ ipc \in {"retry", "new"} /\ queue # <<>> => ENABLED (RetryOne \/ ProcessOne)
    /\ ipc = "retry" /\ queue = <<>> => ENABLED ListNew
    /\ ipc = "new" /\ queue = <<>> /\ cycle < MaxCycles => ENABLED Sleep

\* C7: whatever fails inside process_and_upsert (download, size check,
\* extraction, chunking, upsert), the call returns normally with a status of
\* 'success' or 'skipped', the ledger row of the key records that outcome
\* (the ledger write itself going through), and run_indexer is in a position
\* to go on with the next key and the next cycle.
C7_FailuresRecorded ==
    Called =>
        /\ ~last.out.raised
        /\ last.out.marked
        /\ last.out.status \in {"success", "skipped"}
        /\ Recorded
        /\ GoesOn

\* C7 witness: a call ended in a failure of the extraction, was recorded, and
\* the loop has reached its next cycle
C7_Witness ==
    /\ Called /\ ~last.dbFault
    /\ last.out.file_type \in {"Download Error", "PDF Error", "Chunking Failed",
                               "Upsert Failed"}
    /\ ledger[last.key].file_type = last.out.file_type
    /\ cycle >= 1 /\ ipc = "start"

\* C8: a blob below the size threshold, once downloaded and measured, is
\* recorded 'skipped' / 'Small File' without text extraction and without any
\* upsert; and a key recorded as 'Small File' is never given to
\* process_and_upsert again, by the listing or by the retry phase, and its
\* ledger row stays as it is.
C8_SmallFileSkipped ==
    /\ [](Called /\ BlobOf(last.key).size < MinBytes /\ last.out.sized =>
             /\ last.out.status = "skipped" /\ last.out.file_type = "Small File"
             /\ ~last.out.extracted
             /\ last.out.attempted = 0
             /\ Recorded)
    /\ [][\A k \in Keys : ledger[k].file_type = "Small File" =>
             ~Invokes(k) /\ ledger'[k] = ledger[k]]_vars

\* C8 witness: a small blob was recorded as 'Small File' and a later cycle
\* has listed the bucket without selecting it
C8_Witness ==
    /\ Called /\ BlobOf(last.key).size < MinBytes
    /\ last.out.file_type = "Small File"
    /\ ledger[last.key] = Row("skipped", 0, "Small File")
    /\ cycle >= 1 /\ ipc = "new" /\ queue = <<>>

\* C9: when the chunks of a key go to the vector store in N >= 1 sub-batches,
\* the status is 'success' exactly when at least one sub-batch went through,
\* it is 'skipped' with file type 'Upsert Failed' when all of them failed,
\* and all N sub-batches are attempted whichever of them fail.
C9_AtLeastOneBatch ==
    Called /\ Len(last.out.results) >= 1 =>
        LET out == last.out
            anyOk == \E i \in DOMAIN out.results : out.results[i]
        IN  /\ out.status = "success" <=> anyOk
            /\ ~anyOk => out.status = "skipped" /\ out.file_type = "Upsert Failed"
            /\ out.attempted = Len(out.results)
            /\ Recorded

\* C9 witness: four sub-batches of which the first and third failed, marked
\* 'success'
C9_Witness ==
    /\ Called /\ ~last.dbFault
    /\ last.out.results = <<FALSE, TRUE, FALSE, TRUE>>
    /\ last.out.attempted = 4
    /\ ledger[last.key].status = "success"

\* C10: a key with a ledger entry is never processed again, so the chunks of
\* a key are put into the vector store by at most one processing attempt.
C10_AtMostOneUpsert == \A k \in Keys : upserted[k] <= 1

\* C29: a key is taken for a re-attempt only while its row has status
\* 'failed' and retry_count < MAX_RETRIES, a cycle re-attempts at most 5
\* keys, and over the whole run no key is re-attempted more than
\* MAX_RETRIES times.
C29_RetryBounded ==
    /\ \A k \in Keys : retried[k] <= MAX_RETRIES
    /\ ipc = "retry" =>
          /\ Len(queue) <= RETRY_SLICE
          /\ \A i \in DOMAIN queue :
                ledger[queue[i]].status = "failed" /\ ledger[queue[i]].retry_count < MAX_RETRIES

\* C30: a re-attempt leaves the key's retry_count exactly one higher than it
\* found it, the new status of the re-attempt being written into the same
\* row; no step of the indexer lowers a retry_count.
C30_RetryCountKept ==
    [][\A k \in Keys :
         /\ retried'[k] # retried[k] =>
                ledger'[k].retry_count = ledger[k].retry_count + 1
         /\ ledger'[k].retry_count >= ledger[k].retry_count]_vars

\* q holds, oldest first, the min(n, |blobs|) oldest of blobs
OldestFirst(q, blobs, n) ==
    /\ Len(q) = IF Cardinality(blobs) < n THEN Cardinality(blobs) ELSE n
    /\ \A i \in DOMAIN q : \E b \in blobs : b.key = q[i]
    /\ \A i, j \in DOMAIN q : i < j => BlobOf(q[i]).modified < BlobOf(q[j]).modified
    /\ \A b \in blobs : b.key \notin Range(q) =>
          \A i \in DOMAIN q : BlobOf(q[i]).modified < b.modified

\* the blobs under the prefix without a ledger row
Unrecorded == {b \in Bucket : ledger[b.key] = NoRow}

\* this step ends the listing of a cycle and starts its new-file loop
StartsNewFiles == ipc = "retry" /\ ipc' = "new" /\ queue' # <<>>

\* the new-file loop takes its keys in the order of the list
InListOrder ==
    ipc = "new" /\ last'.n # last.n => last'.key = Head(queue) /\ queue' = Tail(queue)

Drained == \A k \in Keys : IsPdf(k) => ledger[k] # NoRow

\* in this step the listing, the ledger reads and the ledger writes went
\* through
NoFault ==
    /\ ipc = "retry" /\ ipc' # "retry" => ipc' = "new" /\ (queue' = <<>> => Drained)
    /\ last'.n # last.n => ~last'.dbFault

\* the indexer loop with its listing and its ledger working
DrainNext ==
    \/ RetryList /\ NoFault
    \/ RetryOne /\ NoFault
    \/ ListNew /\ NoFault
    \/ ProcessOne /\ NoFault
    \/ Sleep /\ NoFault

\* the while loop keeps running: each pass ends in time.sleep(30) and the
\* next one starts
DrainSpec == IndexInit /\ [][DrainNext]_vars /\ WF_vars(DrainNext)

\* C33: with the listing and the ledger working and the loop running, every
\* .pdf blob under the prefix gets a ledger row in the end, and keeps it,
\* also when there are more new blobs than one cycle takes.
C33_BacklogDrains ==
    /\ <>Drained
    /\ [][\A k \in Keys : ledger[k] # NoRow => ledger'[k] # NoRow]_vars

\* C33 witness: two .pdf blobs had no row, more than the BATCH_SIZE of one
\* cycle; after the second cycle both have one
C33_Witness ==
    /\ Drained /\ cycle >= 1
    /\ retried = [k \in Keys |-> 0]
    /\ last.n = 2 /\ last.key = <<"b", ".pdf">>
    /\ Cardinality({k \in Keys : IsPdf(k)}) > BATCH_SIZE

\* the keys whose ledger row has status 'failed'
FailedRows == {k \in Keys : ledger[k].status = "failed"}

\* C34: every status the indexer writes is 'success' or 'skipped'; from an
\* empty ledger no row is ever 'failed', get_failed_files is empty in every
\* cycle and the retry phase attempts nothing.
C34_NeverFailed ==
    /\ [][\A k \in Keys : ledger'[k].status # ledger[k].status
                              => ledger'[k].status \in {"success", "skipped"}]_vars
    /\ (\A k \in Keys : ledger[k] = NoRow)
         => [](/\ FailedRows = {}
               /\ get_failed_files(ledger) = {}
               /\ retried = [k \in Keys |-> 0]
               /\ (ipc = "retry" => queue = <<>>))

\* C34 witness: the ledger was empty, the first cycle recorded a.pdf as
\* 'success', and the retry phase of the second cycle has nothing to do
C34_Witness ==
    /\ cycle = 1 /\ ipc = "retry" /\ queue = <<>>
    /\ last.n = 1 /\ last.key = <<"a", ".pdf">>
    /\ ledger[<<"a", ".pdf">>].status = "success"
    /\ ledger[<<"b", ".pdf">>] = NoRow
    /\ retried = [k \in Keys |-> 0]

----------------------------------------------------------------------------
(* process_and_upsert called for the blobs of the bucket *)

UpsertInit ==
    /\ PersistInit /\ KeyIdle /\ IndexIdle /\ WalkIdle /\ PoolIdle /\ SigIdle
    /\ fin = NoArg /\ fout = <<>> /\ sc = NoScrape
    /\ pu = [NoUpsert EXCEPT !.pc = "call"]

UpsertNext == UpsertBody \/ UpsertFinally \/ UpsertAgain

UpsertSpec == UpsertInit /\ [][UpsertNext]_vars

\* the exit paths of process_and_upsert, by the file type they record
ExitPaths ==
    {"Download Error", "Small File", "PDF Error", "Empty PDF", "Low Content",
     "Chunking Failed", "Document Creation Failed", "Upsert Error", "Upsert Failed",
     "General Error", "PDF"}

C32_WitnessException ==
    /\ pu.pc = "returned" /\ pu.type = "General Error"
    /\ pu.wrote /\ pu.removed /\ pu.file = "absent"

----------------------------------------------------------------------------
(* scrape_page called with every number of retries *)

ScrapeInit ==
    /\ PersistInit /\ KeyIdle /\ IndexIdle /\ WalkIdle /\ PoolIdle /\ SigIdle
    /\ fin = NoArg /\ fout = <<>> /\ pu = NoUpsert
    /\ sc \in {[NoScrape EXCEPT !.variant = v, !.pc = "try", !.retries = r] :
                   v \in Variants, r \in 0..MaxRetries}

ScrapeNext == ScrapeAttempt \/ ScrapeSleep \/ ScrapeExhausted

\* the thread that called scrape_page keeps running; driver.get and the wait
\* for <body> are bounded by the page-load timeout and the wait's timeout
ScrapeSpec == ScrapeInit /\ [][ScrapeNext]_vars /\ WF_vars(ScrapeNext)

ScrapeDone == sc.pc = "done"

\* every attempt of the call so far failed
AllFailed == \A i \in DOMAIN sc.tries : sc.tries[i] # "ok"

\* C26: scrape_page(driver, url, retries) makes at most retries attempts; it
\* returns the parsed document at the first attempt that succeeds and makes
\* no attempt after it; once retries attempts have failed it returns None;
\* it never raises, and it returns.
C26_ScrapeBounded ==
    /\ [](/\ Len(sc.tries) <= sc.retries
          /\ ~sc.raised
          /\ \A i \in DOMAIN sc.tries : sc.tries[i] = "ok" => i = Len(sc.tries) /\ ScrapeDone
          /\ ScrapeDone => /\ sc.ret \in {"soup", "None"}
                           /\ sc.ret = "soup" <=> ~AllFailed
                           /\ sc.ret = "None" => Len(sc.tries) = sc.retries)
    /\ [][ScrapeDone => sc' = sc]_vars
    /\ <>ScrapeDone

\* C26 witness: called with retries = 3, the first two attempts failed and
\* the third gave the document
C26_Witness ==
    /\ ScrapeDone /\ sc.retries = 3
    /\ sc.tries = <<"get", "wait", "ok">>
    /\ sc.ret = "soup"

\* C26 witness: called with retries = 2, both attempts failed, None returned
C26_WitnessNone ==
    /\ ScrapeDone /\ sc.retries = 2
    /\ sc.tries = <<"wait", "source">>
    /\ sc.ret = "None"

----------------------------------------------------------------------------
(* The page functions on bounded inputs *)

FnInit ==
    /\ PersistInit /\ KeyIdle /\ IndexIdle /\ WalkIdle /\ PoolIdle /\ SigIdle
    /\ fin \in {[fn |-> "years_links_extract", url |-> u, page |-> d, text |-> <<>>] :
                    u \in {target_url, Append(target_url, "2024")}, d \in Docs}
             \cup {[fn |-> "is_document_size_greater_than_zero", url |-> target_url,
                     page |-> Doc(FALSE, <<>>), text |-> t] : t \in Labels}
             \cup {[fn |-> "extract_document_link", url |-> target_url,
                     page |-> d, text |-> <<>>] : d \in DetailPages}
             \cup {[fn |-> "extract_all_cases_links_in_a_query", url |-> target_url,
                     page |-> l, text |-> <<>>] : l \in Listings}
    /\ fout = <<>>
    /\ sc = NoScrape
    /\ pu = NoUpsert

FnNext == ApplyYears \/ ApplySize \/ ApplyExtract \/ ApplyQuery

FnSpec == FnInit /\ [][FnNext]_vars

YearsCalled == fin.fn = "years_links_extract" /\ fout # <<>>

\* the page has no ul.year-nav element
NoYearNav(page) == ~page.raises /\ page.uls = <<>>

\* parsing the page throws: find_all raises, or an href of the first list
\* has no second-to-last part
ParsingThrows(page) ==
    \/ page.raises
    \/ /\ page.uls # <<>>
       /\ \E i \in DOMAIN page.uls[1] :
             page.uls[1][i] # None /\ Len(page.uls[1][i]) < 2

\* C12: years_links_extract(u, doc) is [u] when doc has no year-navigation
\* list, and is [u] as well when parsing doc throws; a list that parses
\* gives one link per li with an href, u + year + "/".
C12_YearsFallback ==
    YearsCalled =>
        /\ NoYearNav(fin.page) \/ ParsingThrows(fin.page) => fout[1] = <<fin.url>>
        /\ ~NoYearNav(fin.page) /\ ~ParsingThrows(fin.page) =>
              Len(fout[1]) = Len(WithHref(fin.page.uls[1]))

\* C12 witness: the function was applied to a page without a list, and to a
\* page whose list has an href without a slash
C12_Witness ==
    /\ YearsCalled
    /\ fin.page = Doc(FALSE, <<>>)
    /\ fout[1] = <<fin.url>>

C12_WitnessThrows ==
    /\ YearsCalled
    /\ fin.page = Doc(FALSE, <<<<<<"2019", "">>, <<"x">>>>>>)
    /\ fout[1] = <<fin.url>>

\* the page has a year-navigation list and the list has no year entry
EmptyYearNav(page) ==
    /\ ~page.raises
    /\ page.uls # <<>>
    /\ WithHref(page.uls[1]) = <<>>

\* C23: years_links_extract(u, doc) is [u] when the year-navigation list of
\* doc is present and holds no year entry.
C23_EmptyListFallsBack ==
    YearsCalled /\ EmptyYearNav(fin.page) => fout[1] = <<fin.url>>

SizeCalled == fin.fn = "is_document_size_greater_than_zero" /\ fout # <<>>

\* the label parses: the search finds a number and a unit
Parses(text) == search(text) # NoMatch

\* C13 as stated: a label whose parsed size is zero is rejected, a label
\* whose parsed size is positive is accepted, an empty or unparseable label
\* is accepted.
C13_AcceptsPositive ==
    SizeCalled =>
        /\ Parses(fin.text) /\ search(fin.text).size = 0 => fout[1] = FALSE
        /\ Parses(fin.text) /\ search(fin.text).size > 0 => fout[1] = TRUE
        /\ ~Parses(fin.text) => fout[1] = TRUE

\* C13: a label whose parsed size is zero is rejected; a label in KB is
\* accepted when its size is positive, a label in MB when its size is
\* above 0.001; an empty or unparseable label is accepted.
C13_AcceptsAboveThreshold ==
    SizeCalled =>
        /\ Parses(fin.text) /\ search(fin.text).size = 0 => fout[1] = FALSE
        /\ Parses(fin.text) /\ search(fin.text).unit = "KB" =>
              (fout[1] <=> search(fin.text).size > 0)
        /\ Parses(fin.text) /\ search(fin.text).unit = "MB" =>
              (fout[1] <=> search(fin.text).size > 10)
        /\ ~Parses(fin.text) => fout[1] = TRUE
        /\ fin.text = <<"0", " ", "KB">> => fout[1] = FALSE
        /\ fin.text = <<"45", " ", "KB">> => fout[1] = TRUE
        /\ fin.text = <<>> => fout[1] = TRUE

\* C13 witness: the label "0.001 mb" was rejected
C13_Witness ==
    /\ SizeCalled
    /\ fin.text = <<"0", ".", "001", "mb">>
    /\ fout[1] = FALSE

ExtractCalled == fin.fn = "extract_document_link" /\ fout # <<>>

\* C37: when the size gate rejects the primary download button, a document
\* link whose label tells a zero size, extract_document_link does not
\* return the link of that button from the fallback over the dd elements.
C37_ZeroSizeNeverReturned ==
    (/\ ExtractCalled
     /\ ZeroSize(fin.page.button)
     /\ IsDocumentLink(fin.page.button.href))
    => fout[1] # fin.page.button.href

QueryCalled == fin.fn = "extract_all_cases_links_in_a_query" /\ fout # <<>>

\* C39: when the first page of a letter was fetched, and no later fetch of
\* a page fails, every detail link listed on the first page is handed to
\* process_single_document, whatever the pagination control points at.
C39_FirstPageDispatched ==
    QueryCalled /\ fin.page.first /\ fin.page.fails = {} =>
        ListedOn(Link(fin.url, ord_a, 0)) \subseteq fout[1]

----------------------------------------------------------------------------
(* The DriverPool under concurrent callers *)

PoolInit ==
    /\ PersistInit /\ KeyIdle /\ IndexIdle /\ WalkIdle /\ FnIdle /\ SigIdle
    /\ dp \in InitialPools
    /\ callers = [c \in Callers |-> IdleCaller]

PoolNext ==
    \/ \E c \in Callers : TakeFromQueue(c)
    \/ \E c \in Callers : FindEmpty(c)
    \/ \E c \in Callers : Lock(c)
    \/ \E c \in Callers : CreateDriver(c)
    \/ \E c \in Callers : GiveUp(c)
    \/ \E c \in Callers : ReturnDriver(c)

PoolSpec == PoolInit /\ [][PoolNext]_vars

\* kenyalaw2.py:219-223: the second get on the queue
Wait(c) == callers[c].pc = "wait" /\ (TakeFromQueue(c) \/ GiveUp(c))

\* how far a caller is into get_driver: at the lock, creating, in the second
\* wait on the queue, or outside
Stage(c) ==
    CASE callers[c].pc = "lock" -> 1
      [] callers[c].pc = "create" -> 2
      [] callers[c].pc = "wait" -> 3
      [] OTHER -> 4

\* C28: get_driver always comes back. A caller inside it can always take
\* its next step, or waits for the lock while the holder of the lock can
\* take its own, and every step takes it further towards the return. A
\* caller that found the queue empty and the pool at capacity waits on the
\* queue; it leaves the wait with the driver at the head of the queue when
\* one was given back, and with None, holding no driver, when the queue is
\* still empty at the timeout.
C28_GetDriverTerminates ==
    /\ [](\A c \in Callers :
            /\ callers[c].pc = "wait" => ENABLED Wait(c)
            /\ callers[c].pc = "create" => ENABLED CreateDriver(c)
            /\ callers[c].pc = "lock" =>
                  \/ ENABLED Lock(c)
                  \/ \E d \in Callers : dp.lock = d /\ callers[d].pc = "create")
    /\ [][\A c \in Callers :
            /\ callers'[c].pc # callers[c].pc /\ Stage(c) < 4 => Stage(c)' > Stage(c)
            /\ callers[c].pc = "lock" /\ callers'[c].pc = "wait" =>
                  Cardinality(dp.active_drivers) >= dp.max_size
            /\ callers[c].pc = "wait" /\ callers'[c].pc # "wait" =>
                  IF dp.drivers = <<>>
                  THEN /\ callers'[c].pc = "idle" /\ callers'[c].driver = NoDriver
                       /\ dp' = dp
                  ELSE /\ callers'[c] = Holding(Head(dp.drivers))
                       /\ dp'.drivers = Tail(dp.drivers)]_vars

\* C28 witness: with a pool of one driver at capacity, one caller holds the
\* driver another caller had given back, and a third caller is in the wait
\* on the empty queue
C28_Witness ==
    /\ dp.variant = "kenyalaw2" /\ dp.max_size = 1
    /\ Cardinality(dp.active_drivers) = 1
    /\ \E a, b, c \in Callers :
          /\ callers[a].pc = "holding" /\ callers[a].driver = callers[b].returned
          /\ callers[b].pc = "idle" /\ callers[b].probe = "ok"
          /\ callers[c].pc = "wait" /\ dp.drivers = <<>>

\* C38: a driver is never held by two callers at once and never both on the
\* queue and held: from the get_driver that hands it out to the
\* return_driver that gives it back, no other get_driver returns it.
C38_WorkerExclusive ==
    /\ [](\A a, b \in Callers :
            a # b /\ callers[a].driver # NoDriver =>
               callers[a].driver # callers[b].driver)
    /\ [](Held \cap Range(dp.drivers) = {})
    /\ [](\A i, j \in DOMAIN dp.drivers : i # j => dp.drivers[i] # dp.drivers[j])
    /\ [][\A c \in Callers :
            callers'[c].driver # callers[c].driver /\ callers'[c].driver # NoDriver =>
               callers'[c].driver \notin Held \cup Range(dp'.drivers)]_vars

\* C38 witness: two callers hold drivers at the same time, one of them the
\* driver that a third caller held before and gave back
C38_Witness ==
    \E a, b, c \in Callers :
        /\ callers[a].pc = "holding" /\ callers[c].pc = "holding" /\ a # c
        /\ callers[b].pc = "idle" /\ callers[b].probe = "ok"
        /\ callers[b].returned = callers[a].driver

\* the live workers of the pool: in the idle queue or handed out
LiveWorkers == Range(dp.drivers) \cup Held

\* C14: the live workers of the pool, those in the idle queue plus those
\* handed out, never number more than the size the pool was built with,
\* however many callers are in get_driver at once.
C14_PoolBounded == Cardinality(LiveWorkers) <= dp.max_size

\* the pool of kenyalaw2.py keeps the bound
PoolBounded_kenyalaw2 ==
    dp.variant = "kenyalaw2" =>
        /\ Cardinality(LiveWorkers) <= dp.max_size
        /\ LiveWorkers \subseteq dp.active_drivers

\* C15: a driver given back that fails the liveness test is torn down, is
\* taken out of the active set and does not go back into the queue, and no
\* caller is ever handed it again; a driver that passes the test goes back
\* to the end of the queue.
C15_DeadDriverDiscarded ==
    /\ [](\A d \in dp.quit :
            /\ d \notin Range(dp.drivers)
            /\ d \notin dp.active_drivers
            /\ d \notin Held)
    /\ [][\A c \in Callers :
            callers[c].pc = "holding" /\ callers'[c].pc = "idle" =>
               LET d == callers[c].driver
               IN  IF callers'[c].probe = "failed"
                   THEN /\ d \in dp'.quit
                        /\ d \notin dp'.active_drivers
                        /\ dp'.drivers = dp.drivers
                   ELSE /\ dp'.drivers = Append(dp.drivers, d)
                        /\ dp'.quit = dp.quit]_vars

\* C15 witness: a driver failed the test and was discarded, and a caller
\* holds a driver started after that while another driver is back in the queue
C15_Witness ==
    /\ \E c \in Callers : callers[c].probe = "failed" /\ callers[c].returned \in dp.quit
    /\ \E c \in Callers : callers[c].probe = "ok" /\ callers[c].returned \in Range(dp.drivers)
    /\ Held # {}

----------------------------------------------------------------------------
(* A crawler process and the signals it gets *)

SigInit ==
    /\ PersistInit /\ KeyIdle /\ IndexIdle /\ WalkIdle /\ FnIdle /\ PoolIdle
    /\ proc \in {NewProc("kenyalaw2", n) : n \in 0..1} \cup {NewProc("kenyalaw_requests", 0)}

SigNext ==
    \/ Signal \/ Handler \/ SysExit \/ UnwindReturn
    \/ DrainQueue \/ ClearActive \/ KillDone
    \/ CheckLoop \/ Enter \/ FetchDone
    \/ GetDriver \/ Retry \/ Resolved \/ PersistDone \/ Returned
    \/ Submit \/ StartTask \/ TaskResolved \/ TaskDone \/ AsCompleted \/ Shutdown
    \/ Finish \/ Finally \/ Exit

SigSpec == SigInit /\ [][SigNext]_vars

\* C16: once cleanup_initiated is set the walker enters no new child: no
\* year, month, letter or page is fetched and no detail resolution or
\* persist is started.
C16_NoChildAfterFlag == proc.after = {}

\* C17: a process that got a signal has, when it exits, set the flag and
\* torn down every driver of the pool: the queue is drained and the active
\* list is empty; whichever signal it was, a second one during the first
\* shutdown included.
C17_SignalTearsDownPool ==
    proc.exited /\ proc.signals > 0 =>
        /\ proc.cleanup_initiated
        /\ proc.drivers = 0
        /\ proc.active_drivers = 0

\* the main thread is inside process_single_document with a driver
InDocument(p) == p.stack # <<>> /\ p.stack[1] \in {"resolve", "persist"}

\* C27: a signal does not cut short a single-document operation that is
\* under way: the operation stays on the main thread until it goes on to
\* its return, where its result is handed back to the loop that collects it.
C27_InFlightCompletes ==
    [][InDocument(proc) =>
          proc'.stack # <<>> /\ proc'.stack[1] \in {"resolve", "persist", "return"}]_vars

====
